---- MODULE Spec2Model ----
(***************************************************************************)
(* A model of the hat-guessing Hanabi player (src/players/hat_player.py).  *)
(*                                                                         *)
(* Python values are modelled as follows.                                  *)
(*   - a card is a record [name |-> <<rank, suit>>, indirect |-> Seq]:     *)
(*     name[1] is Python's cardname[0] (the rank character), name[2] is    *)
(*     cardname[1] (the suit character); Python's cards[k] is cards[k+1].  *)
(*   - an internal action ('play', 2) is [kind |-> "play", slot |-> 2];    *)
(*     ('hint', 0) is [kind |-> "hint", slot |-> 0].                       *)
(*   - an exception ends the call: the result record carries its name in   *)
(*     the field err ("" when the call returned normally).                 *)
(***************************************************************************)
EXTENDS Integers, Sequences, FiniteSets, TLC

VARIABLES
    r,      \* the game record handed to every method (players, hands, ...)
    mem,    \* mem[i]: the memory of r.PlayerRecord[i] (a HatPlayer)
    call,   \* the method call under way and its arguments
    ret,    \* what the last call returned, raised and printed
    pc      \* "call": the call is pending; "hinted": a clue is on the table;
            \* "done": the call has ended

vars == <<r, mem, call, ret, pc>>

(***************************************************************************)
(* Bounds of the model.                                                    *)
(***************************************************************************)
\* Hands hold HandLen cards (the game deals 4 to each of 4 or 5 players and
\* hands shrink to 3 once the deck is empty).
HandLen == 3

(***************************************************************************)
(* Constants of the program.                                               *)
(***************************************************************************)
VANILLA_SUITS == <<"r", "y", "g", "b", "w">>

RAINBOW_SUIT == "?"

\* the cluer decides for the first clued player what to do
MODIFIEDACTION == TRUE

\* r.suits of a game with the rainbow suit
AllSuits == {VANILLA_SUITS[k] : k \in 1..Len(VANILLA_SUITS)} \cup {RAINBOW_SUIT}

\* The ranks and suits of the cards the model deals.
CardRanks == {"1", "2"}

CardSuits == {"r", "y", RAINBOW_SUIT}

CardNames == {<<k, s>> : k \in CardRanks, s \in CardSuits}

\* int(cardname[0])
RankNum(ch) ==
    CASE ch = "1" -> 1 [] ch = "2" -> 2 [] ch = "3" -> 3
      [] ch = "4" -> 4 [] ch = "5" -> 5

Card(name) == [name |-> name, indirect |-> <<>>]

Hint0 == [kind |-> "hint", slot |-> 0]

Play(s) == [kind |-> "play", slot |-> s]

Discard(s) == [kind |-> "discard", slot |-> s]

\* the internal actions of a player with four cards
Actions == {Hint0} \cup {Play(s) : s \in 0..3} \cup {Discard(s) : s \in 0..3}

NoClue == [target |-> -1, value |-> ""]

NoRet == [err |-> "", where |-> "", num |-> -1, action |-> Hint0, clue |-> NoClue,
          printed |-> FALSE, none |-> FALSE, thought |-> FALSE, me |-> -1,
          handlen |-> -1, at |-> -1, hints |-> -1, hand |-> <<>>, queue |-> <<>>,
          last |-> [kind |-> "", position |-> -1, name |-> <<"", "">>, target |-> -1,
                    value |-> ""],
          progress |-> <<>>]

NoCall == [op |-> "", n |-> -1, action |-> Hint0, me |-> -1, player |-> -1,
           cardname |-> <<"", "">>, cluer |-> -1, chain |-> <<>>, steps |-> <<>>]

(***************************************************************************)
(* Turn order.                                                             *)
(***************************************************************************)
next(n, rr) == (n + 1) % rr.nPlayers

prev(n, rr) == (n - 1) % rr.nPlayers

(***************************************************************************)
(* Action codec.                                                           *)
(***************************************************************************)
number_to_action_lt(n) ==
    IF n = 0 THEN Hint0
    ELSE IF n < 4 THEN Play(4 - n)
    ELSE Discard(8 - n)

number_to_action(n) ==
    IF n = 0 THEN Hint0
    ELSE IF n <= 4 THEN Play(4 - n)
    ELSE Discard(8 - n)

action_to_number(action) ==
    IF action.kind = "hint" THEN 0
    ELSE 4 - action.slot + (IF action.kind = "play" THEN 0 ELSE 4)

(***************************************************************************)
(* Clues.  The engine records on every card of the clued hand that the     *)
(* clue does not touch the value of the clue, in the card's 'indirect'     *)
(* list; a clue of a colour touches the cards of that colour and the       *)
(* rainbow cards.                                                          *)
(***************************************************************************)
Touches(name, value) ==
    \/ name[1] = value
    \/ name[2] = value
    \/ name[2] = RAINBOW_SUIT /\ value \in AllSuits

EngineMark(cards, value) ==
    [k \in 1..Len(cards) |->
        IF Touches(cards[k].name, value) THEN cards[k]
        ELSE [cards[k] EXCEPT !.indirect = Append(@, value)]]

EngineHint(rr, target, value) ==
    [rr EXCEPT !.h[target] = EngineMark(@, value)]

Newest(cards) == cards[Len(cards)]

clue_to_number_no_minus(target, value, clueGiver, rr) ==
    LET cards == rr.h[target]
        ind   == Newest(cards).indirect
        x     == IF Len(ind) > 0 /\ ind[Len(ind)] = value THEN 2
                 ELSE IF value \in rr.suits THEN 1
                 ELSE 0
    IN  3 * ((target - clueGiver) % rr.nPlayers) + x

clue_to_number(target, value, clueGiver, rr) ==
    LET cards == rr.h[target]
        ind   == Newest(cards).indirect
        x     == IF Len(ind) > 0 /\ ind[Len(ind)] = value THEN 2
                 ELSE IF value \in rr.suits THEN 1
                 ELSE 0
    IN  3 * ((target - clueGiver - 1) % rr.nPlayers) + x

\* the loop of number_to_clue for x = 2, from Python index i on; "" when the
\* loop ends without a break
RECURSIVE other_clue(_, _)
other_clue(cards, i) ==
    LET new == Newest(cards).name
        c   == cards[i + 1].name
    IN  IF i >= Len(cards) - 1 THEN ""
        ELSE IF c[1] # new[1] THEN c[1]
        ELSE IF c[2] # new[2] /\ new[2] # RAINBOW_SUIT
             THEN IF c[2] # RAINBOW_SUIT THEN c[2]
                  ELSE IF new[2] # VANILLA_SUITS[1] THEN VANILLA_SUITS[1]
                  ELSE VANILLA_SUITS[2]
        ELSE other_clue(cards, i + 1)

\* the clue picked before the fallback ('' when there is none)
picked_clue(cards, x) ==
    LET new == Newest(cards).name
    IN  IF x = 0 THEN new[1]
        ELSE IF x = 1
             THEN IF new[2] # RAINBOW_SUIT THEN new[2] ELSE VANILLA_SUITS[3]
        ELSE other_clue(cards, 0)

number_to_clue_silent(cluenumber, me, rr) ==
    LET target == (me + 1 + cluenumber \div 3) % rr.nPlayers
        cards  == rr.h[target]
        clue   == picked_clue(cards, cluenumber % 3)
    IN  IF target = me THEN [NoRet EXCEPT !.err = "AssertionError"]
        ELSE [NoRet EXCEPT
                !.printed = FALSE,
                !.clue = [target |-> target,
                          value  |-> IF clue = "" THEN Newest(cards).name[1]
                                     ELSE clue]]

number_to_clue_first_suit(cluenumber, me, rr) ==
    LET target == (me + 1 + cluenumber \div 3) % rr.nPlayers
        cards  == rr.h[target]
        x      == cluenumber % 3
        new    == Newest(cards).name
        clue   == IF x = 2 /\ other_clue(cards, 0) \in AllSuits
                  THEN VANILLA_SUITS[1]
                  ELSE picked_clue(cards, x)
    IN  IF target = me THEN [NoRet EXCEPT !.err = "AssertionError"]
        ELSE [NoRet EXCEPT
                !.printed = (clue = "" /\ rr.verbose),
                !.clue = [target |-> target,
                          value  |-> IF clue = "" THEN new[1] ELSE clue]]

number_to_clue(cluenumber, me, rr) ==
    LET target == (me + 1 + cluenumber \div 3) % rr.nPlayers
        cards  == rr.h[target]
        clue   == picked_clue(cards, cluenumber % 3)
    IN  IF target = me THEN [NoRet EXCEPT !.err = "AssertionError"]
        ELSE [NoRet EXCEPT
                !.printed = (clue = "" /\ rr.verbose),
                !.clue = [target |-> target,
                          value  |-> IF clue = "" THEN Newest(cards).name[1]
                                     ELSE clue]]

(***************************************************************************)
(* Helpers on cards (bot_utils).                                           *)
(***************************************************************************)
\* cards.index(card)
IndexOf(cards, card) ==
    (CHOOSE k \in 1..Len(cards) :
        cards[k] = card /\ \A j \in 1..(k - 1) : cards[j] # card) - 1

Reverse(seq) == [k \in 1..Len(seq) |-> seq[Len(seq) + 1 - k]]

Contains(seq, x) == \E k \in 1..Len(seq) : seq[k] = x

is_cardname_playable(cardname, progress) ==
    progress[cardname[2]] + 1 = RankNum(cardname[1])

get_played_cards(cards, progress) ==
    SelectSeq(cards, LAMBDA c : RankNum(c.name[1]) <= progress[c.name[2]])

get_duplicate_cards(cards) ==
    SelectSeq(cards,
        LAMBDA c : Cardinality({k \in 1..Len(cards) : cards[k].name = c.name}) > 1)

\* the first card of the lowest rank
find_lowest(cards) ==
    cards[CHOOSE k \in 1..Len(cards) :
            /\ \A j \in 1..Len(cards) :
                  RankNum(cards[k].name[1]) <= RankNum(cards[j].name[1])
            /\ \A j \in 1..(k - 1) :
                  RankNum(cards[j].name[1]) > RankNum(cards[k].name[1])]

prev_cardname(cardname) ==
    <<CASE cardname[1] = "1" -> "0" [] cardname[1] = "2" -> "1"
        [] cardname[1] = "3" -> "2" [] cardname[1] = "4" -> "3"
        [] cardname[1] = "5" -> "4",
      cardname[2]>>

is_between(x, begin, end) ==
    \/ begin <= x /\ x <= end
    \/ end < begin /\ begin <= x
    \/ x <= end /\ end < begin

(***************************************************************************)
(* The memory of a player.  A Python dict is a function on its keys.       *)
(***************************************************************************)
NoCard == [name |-> <<"", "">>, indirect |-> <<>>]

EmptyDict == <<>>

reset_memory(rr) ==
    [given_clues         |-> <<>>,
     next_player_actions |-> <<>>,
     modified_player     |-> -1,
     safe_discard        |-> NoCard,
     futureprogress      |-> [s \in rr.suits |-> 0],
     card_to_player      |-> EmptyDict,
     player_to_card      |-> EmptyDict,
     will_be_played      |-> <<>>]

\* the outcome of a method on the memory b: the memory it leaves, and the
\* exception it raised ("" for none) with the method that raised it
Ok(b) == [b |-> b, err |-> "", where |-> ""]

Raise(b, err, where) == [b |-> b, err |-> err, where |-> where]

\* a card that occurs twice is discarded before one already played
easy_discards_duplicate_first(cards, progress) ==
    LET played == get_played_cards(cards, progress)
        dup    == get_duplicate_cards(cards)
    IN  IF dup # <<>> THEN Discard(IndexOf(cards, dup[1]))
        ELSE IF played # <<>> THEN Discard(IndexOf(cards, played[1]))
        ELSE Hint0

easy_discards(cards, progress) ==
    LET played == get_played_cards(cards, progress)
        dup    == get_duplicate_cards(cards)
    IN  IF played # <<>> THEN Discard(IndexOf(cards, played[1]))
        ELSE IF dup # <<>> THEN Discard(IndexOf(cards, dup[1]))
        ELSE Hint0

standard_nonplay(cards, progress) == easy_discards(cards, progress)

want_to_play(cluer, player, dont_play, progress, dic, cardname, rr) ==
    IF ~is_cardname_playable(cardname, rr.progress) THEN FALSE
    ELSE IF Contains(dont_play, cardname) THEN FALSE
    ELSE IF is_cardname_playable(cardname, rr.progress) THEN TRUE
    ELSE is_between(dic[prev_cardname(cardname)], cluer, player)

\* the oldest of the cards the player wants to play is chosen
standard_action_oldest(me, cluer, player, dont_play, progress, card_to_player, player_to_card, rr) ==
    LET cards == rr.h[player]
        chosen(playableCards) ==
            IF playableCards # <<>>
            THEN [err |-> "", action |-> Play(IndexOf(cards, playableCards[1]))]
            ELSE [err |-> "", action |-> standard_nonplay(cards, progress)]
    IN  IF player = me THEN [err |-> "AssertionError", action |-> Hint0]
        ELSE IF player \in DOMAIN player_to_card
        THEN [err |-> "", action |-> Play(player_to_card[player])]
        ELSE chosen(SelectSeq(cards, LAMBDA c :
                        want_to_play(cluer, player, dont_play, progress,
                                     card_to_player, c.name, rr)))

\* the action is worked out again for a player that is already playing
standard_action_recomputed(me, cluer, player, dont_play, progress, card_to_player, player_to_card, rr) ==
    LET cards == rr.h[player]
        chosen(playableCards) ==
            IF playableCards # <<>>
            THEN [err |-> "",
                  action |-> Play(IndexOf(cards, find_lowest(Reverse(playableCards))))]
            ELSE [err |-> "", action |-> standard_nonplay(cards, progress)]
    IN  IF player = me THEN [err |-> "AssertionError", action |-> Hint0]
        ELSE chosen(SelectSeq(cards, LAMBDA c :
                        want_to_play(cluer, player, dont_play, progress,
                                     card_to_player, c.name, rr)))

\* the action of `player` as player `me` computes it: [err, action]
standard_action(me, cluer, player, dont_play, progress, card_to_player, player_to_card, rr) ==
    LET cards == rr.h[player]
        chosen(playableCards) ==
            IF playableCards # <<>>
            THEN [err |-> "",
                  action |-> Play(IndexOf(cards, find_lowest(Reverse(playableCards))))]
            ELSE [err |-> "", action |-> standard_nonplay(cards, progress)]
    IN  IF player = me THEN [err |-> "AssertionError", action |-> Hint0]
        ELSE IF player \in DOMAIN player_to_card
        THEN [err |-> "", action |-> Play(player_to_card[player])]
        ELSE chosen(SelectSeq(cards, LAMBDA c :
                        want_to_play(cluer, player, dont_play, progress,
                                     card_to_player, c.name, rr)))

\* The action of `player`, the first player of the clue of player `me`.
\* The attributes min_futurehints and modified_hints that it reads are
\* assigned by count_hints and by no statement at all: reset_memory gives a
\* player neither, initialize_future_prediction is called nowhere, and
\* count_hints, reading futurehints, cannot assign min_futurehints before
\* it.  Reading them raises AttributeError, so the statements after the
\* reads (lines 298-338) are never run.
modified_action(me, cluer, player, dont_play, progress, card_to_player, player_to_card, rr) ==
    LET recommended(x) ==
            IF x.err # "" THEN x
            ELSE IF ~MODIFIEDACTION THEN x
            ELSE IF x.action.kind = "play"
            THEN \* if self.min_futurehints <= 0 and ...
                 [err |-> "AttributeError", action |-> Hint0]
            ELSE \* if self.modified_hints >= 8:
                 [err |-> "AttributeError", action |-> Hint0]
    IN  IF player = me \/ cluer # me THEN [err |-> "AssertionError", action |-> Hint0]
        ELSE recommended(standard_action(me, cluer, player, dont_play, progress,
                                         card_to_player, player_to_card, rr))

subtract_action(d, action) ==
    [d EXCEPT !.value = (@ - action_to_number(action)) % 9]

\* the action whose code update_value_after_action subtracts is replaced by
\* the player's entry of 'discards'
substituted_always(b, action, cardname, player) ==
    \/ action.kind = "hint"
    \/ action.kind = "play" /\ ~is_cardname_playable(cardname, b.futureprogress)

substituted_never_for_hint(b, action, cardname, player) ==
    action.kind = "play" /\ ~is_cardname_playable(cardname, b.futureprogress)

substituted(b, action, cardname, player) ==
    \/ action.kind = "hint" /\ ~(player = b.modified_player /\ MODIFIEDACTION)
    \/ action.kind = "play" /\ ~is_cardname_playable(cardname, b.futureprogress)

update_value_after_action(b, action, cardname, player) ==
    IF b.given_clues = <<>> THEN Raise(b, "IndexError", "update_value_after_action")
    ELSE IF substituted(b, action, cardname, player)
    THEN IF player \notin DOMAIN b.given_clues[1].discards
         THEN Raise(b, "KeyError", "update_value_after_action")
         ELSE Ok([b EXCEPT !.given_clues[1] =
                     subtract_action(@, b.given_clues[1].discards[player])])
    ELSE Ok([b EXCEPT !.given_clues[1] = subtract_action(@, action)])

(***************************************************************************)
(* Interpreting clues.                                                     *)
(***************************************************************************)
\* r.progress is a dict (cheating_player.py reads r.progress[suit] and
\* r.progress.values()), so the slice r.progress[:] of the first statement
\* raises TypeError and the rest of the method never runs
\* the slice is taken to be a copy of r.progress, and no action is recorded
resolve_next_player_actions_copy(b, me, rr) ==
    Ok([b EXCEPT !.futureprogress = rr.progress])

resolve_next_player_actions(b, me, rr) ==
    Raise(b, "TypeError", "resolve_next_player_actions")

\* the first player from i on who is not in player_to_card
RECURSIVE first_not_playing(_, _, _)
first_not_playing(b, i, rr) ==
    IF i \in DOMAIN b.player_to_card THEN first_not_playing(b, next(i, rr), rr)
    ELSE i

\* the loop of initialize_given_clue over the players after me and after
\* modified_player, from player i backwards
RECURSIVE later_players(_, _, _, _)
later_players(b, me, i, rr) ==
    LET done(x) ==
            LET b1 == [b EXCEPT !.next_player_actions = Append(@, x.action),
                                !.given_clues[1] = subtract_action(@, x.action)]
            IN  IF x.err # "" THEN Raise(b, x.err, "standard_action")
                ELSE IF x.action.kind # "play" THEN later_players(b1, me, prev(i, rr), rr)
                ELSE IF x.action.slot >= Len(rr.h[i])
                THEN Raise(b1, "IndexError", "initialize_given_clue")
                ELSE later_players(
                        [b1 EXCEPT !.will_be_played =
                                      Append(@, rr.h[i][x.action.slot + 1].name)],
                        me, prev(i, rr), rr)
    IN  IF i = me \/ i = b.modified_player THEN Ok(b)
        ELSE done(standard_action(me, b.given_clues[1].cluer, i, b.will_be_played,
                                  b.futureprogress, b.card_to_player,
                                  b.player_to_card, rr))

\* the loop over the plays recorded for the clue, from the k-th on; i is the
\* player of the k-th play.  Returns the outcome and the player reached.
RECURSIVE replay_plays(_, _, _, _, _)
replay_plays(b, plays, k, i, rr) ==
    LET done(res) ==
            IF res.err # "" THEN [res |-> res, i |-> i]
            ELSE replay_plays(res.b, plays, k + 1, next(i, rr), rr)
    IN  IF k > Len(plays) THEN [res |-> Ok(b), i |-> i]
        ELSE done(update_value_after_action(b, plays[k].action, plays[k].cardname, i))

\* the loop over the players from i on who are in player_to_card; returns
\* the memory, the plays collected and the player reached
RECURSIVE next_plays(_, _, _, _)
next_plays(b, nextplays, i, rr) ==
    IF i \notin DOMAIN b.player_to_card THEN [b |-> b, nextplays |-> nextplays, i |-> i]
    ELSE LET action == Play(b.player_to_card[i])
         IN  next_plays([b EXCEPT !.given_clues[1] = subtract_action(@, action)],
                        Append(nextplays, action), next(i, rr), rr)

initialize_given_clue(b, me, rr) ==
    LET cluer == b.given_clues[1].cluer
        b1 == [b EXCEPT !.modified_player = first_not_playing(b, next(cluer, rr), rr),
                        !.next_player_actions = <<>>,
                        !.will_be_played = <<>>]
        \* the plays that will happen between player i and modified_player
        between(b3, np) ==
            IF np.i # b3.modified_player
            THEN Raise(np.b, "AssertionError", "initialize_given_clue")
            ELSE Ok([np.b EXCEPT !.next_player_actions =
                        Append(np.nextplays, number_to_action(np.b.given_clues[1].value))
                        \o np.b.next_player_actions])
        \* after the plays that have already happened
        replayed(r3) ==
            IF r3.res.err # "" THEN r3.res
            ELSE IF r3.i # rr.whoseTurn
            THEN Raise(r3.res.b, "AssertionError", "initialize_given_clue")
            ELSE IF r3.i = me THEN Ok(r3.res.b)
            ELSE IF ~is_between(r3.i, cluer, r3.res.b.modified_player) THEN Ok(r3.res.b)
            ELSE between(r3.res.b, next_plays(r3.res.b, <<>>, r3.i, rr))
        \* after the loop over the later players
        reversed(b2) ==
            replayed(replay_plays(b2, b2.given_clues[1].plays, 1, next(cluer, rr), rr))
        later(r2) ==
            IF r2.err # "" THEN r2
            ELSE reversed([r2.b EXCEPT !.next_player_actions = Reverse(@)])
    IN  IF me \in DOMAIN b.player_to_card
        THEN Raise(b, "AssertionError", "initialize_given_clue")
        ELSE IF b.given_clues = <<>>
        THEN Raise(b, "IndexError", "initialize_given_clue")
        ELSE later(later_players(b1, me, prev(cluer, rr), rr))

\* the outcome of resolve_given_clues: the memory, the exception, and the
\* value returned (none is TRUE when the method returns None)
Returned(b, action) == [b |-> b, err |-> "", where |-> "", none |-> FALSE, action |-> action]

ReturnedNone(b) == [b |-> b, err |-> "", where |-> "", none |-> TRUE, action |-> Hint0]

Raised(res) == [b |-> res.b, err |-> res.err, where |-> res.where, none |-> TRUE,
                action |-> Hint0]

RECURSIVE resolve_given_clues(_, _, _)
resolve_given_clues(b, me, rr) ==
    LET mine     == me = rr.whoseTurn
        myaction == number_to_action(b.given_clues[1].value)
        b1 == IF mine /\ myaction.kind = "discard" /\ myaction.slot < Len(rr.h[me])
              THEN [b EXCEPT !.safe_discard = rr.h[me][myaction.slot + 1]]
              ELSE b
        initialized(r4) ==
            IF r4.err # "" THEN Raised(r4)
            ELSE resolve_given_clues(r4.b, me, rr)
        resolved(r2) ==
            IF r2.err # "" THEN Raised(r2)
            ELSE IF Len(r2.b.given_clues) = 1 /\ mine THEN Returned(r2.b, myaction)
            ELSE initialized(
                    initialize_given_clue([r2.b EXCEPT !.given_clues = Tail(@)], me, rr))
    IN  IF b.given_clues = <<>> THEN ReturnedNone(b)
        ELSE IF mine /\ myaction.kind = "play" THEN Returned(b, myaction)
        ELSE IF mine /\ myaction.kind = "discard" /\ myaction.slot >= Len(rr.h[me])
        THEN Raised(Raise(b, "IndexError", "resolve_given_clues"))
        ELSE resolved(resolve_next_player_actions(b1, me, rr))

(***************************************************************************)
(* Observing the last action.  An entry of r.playHistory is a record       *)
(* [kind, position, name, target, value]: position and name are those of   *)
(* the card played or discarded, target and value those of a clue.         *)
(***************************************************************************)
RawCard(kind, position, name) ==
    [kind |-> kind, position |-> position, name |-> name, target |-> -1, value |-> ""]

RawHint(target, value) ==
    [kind |-> "hint", position |-> -1, name |-> <<"", "">>, target |-> target,
     value |-> value]

\* the tuple returned: three components for a hint, two otherwise
interpret_external_action(raw) ==
    IF raw.kind = "hint"
    THEN [len |-> 3, action |-> Hint0, cardname |-> <<"", "">>]
    ELSE [len |-> 2, action |-> [kind |-> raw.kind, slot |-> raw.position],
          cardname |-> raw.name]

DictRemove(d, key) == [x \in (DOMAIN d) \ {key} |-> d[x]]

\* the clue of a hint just seen joins the clues of the player
enqueue_clue(b, me, player, raw, rr) ==
    LET cluevalue == clue_to_number(raw.target, raw.value, player, rr)
        standard_discards ==
            [i \in (0..(rr.nPlayers - 1)) \ {me, player} |->
                standard_nonplay(rr.h[i], rr.progress)]
        info == [value |-> cluevalue, discards |-> standard_discards,
                 cluer |-> player, plays |-> <<>>]
        appended(b1) ==
            IF Len(b1.given_clues) = 1 THEN initialize_given_clue(b1, me, rr)
            ELSE Ok(b1)
    IN  appended([b EXCEPT !.given_clues = Append(@, info)])

think_at_turn_start(b, me, rr) ==
    LET player == prev(rr.whoseTurn, rr)
        raw    == rr.playHistory[Len(rr.playHistory)]
        ext    == interpret_external_action(raw)
        action == ext.action
        cardname == ext.cardname
        suit   == cardname[2]
        \* my own play
        bOwn   == [b EXCEPT !.futureprogress[suit] = @ + 1]
        bOwn2  == [bOwn EXCEPT !.given_clues =
                     [k \in 1..Len(bOwn.given_clues) |->
                        [bOwn.given_clues[k] EXCEPT !.plays =
                            Append(@, [action |-> action, cardname |-> cardname])]]]
        own(rOwn) ==
            IF rOwn.err # "" THEN Raise(rOwn.b, rOwn.err, rOwn.where)
            ELSE IF rOwn.b.given_clues # <<>>
            THEN Raise(rOwn.b, "AssertionError", "think_at_turn_start")
            ELSE Ok(rOwn.b)
        \* the play of another player
        known  == player \in DOMAIN b.player_to_card
        bSeen  == IF b.given_clues = <<>> \/ action.kind # "play" THEN b
                  ELSE IF known
                  THEN [b EXCEPT !.player_to_card = DictRemove(@, player),
                                 !.card_to_player = DictRemove(@, cardname)]
                  ELSE [b EXCEPT !.futureprogress[suit] = @ + 1]
        recorded(bRest) ==
            IF action.kind # "hint" THEN Ok(bRest)
            ELSE enqueue_clue(bRest, me, player, raw, rr)
        updated(rUpd) ==
            IF rUpd.err # "" THEN rUpd
            ELSE recorded([rUpd.b EXCEPT !.given_clues =
                     [k \in 1..Len(rUpd.b.given_clues) |->
                        IF k = 1 THEN rUpd.b.given_clues[k]
                        ELSE [rUpd.b.given_clues[k] EXCEPT !.plays =
                                Append(@, [action |-> action, cardname |-> cardname])]]])
    IN  IF rr.playHistory = <<>> THEN Raise(b, "IndexError", "think_at_turn_start")
        ELSE IF ext.len # 2 THEN Raise(b, "ValueError", "think_at_turn_start")
        ELSE IF me = player
        THEN IF action.kind # "play" THEN Ok(b)
             ELSE IF bOwn.futureprogress[suit] # RankNum(cardname[1])
             THEN Raise(bOwn, "AssertionError", "think_at_turn_start")
             ELSE own(resolve_given_clues(bOwn2, me, rr))
        ELSE IF /\ b.given_clues # <<>> /\ action.kind = "play" /\ known
                /\ cardname \notin DOMAIN b.card_to_player
        THEN Raise([b EXCEPT !.player_to_card = DictRemove(@, player)],
                   "KeyError", "think_at_turn_start")
        ELSE IF /\ b.given_clues # <<>> /\ action.kind = "play" /\ ~known
                /\ bSeen.futureprogress[suit] # RankNum(cardname[1])
        THEN Raise(bSeen, "AssertionError", "think_at_turn_start")
        ELSE updated(IF b.given_clues = <<>> THEN Ok(bSeen)
                     ELSE update_value_after_action(bSeen, action, cardname, player))

(***************************************************************************)
(* The turn of a player.                                                   *)
(***************************************************************************)
\* the outcome of play: the memories of all players, the exception raised,
\* and the action returned to the engine (none is TRUE when play returns
\* None): kind and slot of the card, or the clue of a hint
PlayReturned(m, action, clue) ==
    [mem |-> m, err |-> "", where |-> "", none |-> FALSE, action |-> action,
     clue |-> clue, thought |-> TRUE]

PlayRaised(m, err, where) ==
    [mem |-> m, err |-> err, where |-> where, none |-> TRUE, action |-> Hint0,
     clue |-> NoClue, thought |-> TRUE]

\* an exception raised while the players think about the last action
ThinkRaised(m, err, where) ==
    [mem |-> m, err |-> err, where |-> where, none |-> TRUE, action |-> Hint0,
     clue |-> NoClue, thought |-> FALSE]

\* a slot the hand does not have is taken to be the newest card
execute_action_clamped(m, me, myaction, rr) ==
    LET cards  == rr.h[me]
        inHand == myaction.slot < Len(cards)
    IN  IF myaction.kind = "discard" /\ rr.hints = 8 /\ m[me].given_clues = <<>>
        THEN PlayRaised(m, "IndexError", "execute_action")
        ELSE IF myaction.kind = "hint" THEN PlayReturned(m, myaction, NoClue)
        ELSE IF ~inHand
        THEN PlayReturned(m, [myaction EXCEPT !.slot = Len(cards) - 1], NoClue)
        ELSE PlayReturned(m, myaction, NoClue)

execute_action(m, me, myaction, rr) ==
    LET cards  == rr.h[me]
        inHand == myaction.slot < Len(cards)
    IN  IF myaction.kind = "discard" /\ rr.hints = 8 /\ m[me].given_clues = <<>>
        THEN PlayRaised(m, "IndexError", "execute_action")
        ELSE IF myaction.kind = "hint" THEN PlayReturned(m, myaction, NoClue)
        ELSE IF ~inHand THEN PlayRaised(m, "IndexError", "execute_action")
        ELSE PlayReturned(m, myaction, NoClue)

\* the thinking of a player is kept by the player after it as well
RECURSIVE think_all_shared(_, _, _)
think_all_shared(m, i, rr) ==
    LET thought(res) ==
            IF res.err # ""
            THEN [mem |-> [m EXCEPT ![i] = res.b], err |-> res.err,
                  where |-> res.where, at |-> i]
            ELSE think_all_shared([m EXCEPT ![i] = res.b,
                                            ![(i + 1) % rr.nPlayers] = res.b],
                                  i + 1, rr)
    IN  IF i >= rr.nPlayers THEN [mem |-> m, err |-> "", where |-> "", at |-> i]
        ELSE thought(think_at_turn_start(m[i], i, rr))

\* every player thinks about the last action, from player i on; `at` is the
\* player whose thinking raised (nPlayers when none did)
RECURSIVE think_all(_, _, _)
think_all(m, i, rr) ==
    LET thought(res) ==
            IF res.err # ""
            THEN [mem |-> [m EXCEPT ![i] = res.b], err |-> res.err,
                  where |-> res.where, at |-> i]
            ELSE think_all([m EXCEPT ![i] = res.b], i + 1, rr)
    IN  IF i >= rr.nPlayers THEN [mem |-> m, err |-> "", where |-> "", at |-> i]
        ELSE thought(think_at_turn_start(m[i], i, rr))

\* the loop of play over the players after modified_player, from player i
\* backwards; returns the outcome and the number of the clue so far
RECURSIVE clue_players(_, _, _, _, _)
clue_players(b, me, i, cluenumber, rr) ==
    LET done(x) ==
            LET b1 == [b EXCEPT !.next_player_actions = Append(@, x.action)]
                c1 == (cluenumber + action_to_number(x.action)) % 9
            IN  IF x.err # "" THEN [res |-> Raise(b, x.err, "standard_action"),
                                    cluenumber |-> cluenumber]
                ELSE IF x.action.kind # "play"
                THEN clue_players(b1, me, prev(i, rr), c1, rr)
                ELSE IF x.action.slot >= Len(rr.h[i])
                THEN [res |-> Raise(b1, "IndexError", "play"), cluenumber |-> c1]
                ELSE clue_players(
                        [b1 EXCEPT !.will_be_played =
                                      Append(@, rr.h[i][x.action.slot + 1].name)],
                        me, prev(i, rr), c1, rr)
    IN  IF i = me \/ i = b.modified_player THEN [res |-> Ok(b), cluenumber |-> cluenumber]
        ELSE done(standard_action(me, me, i, b.will_be_played, b.futureprogress,
                                  b.card_to_player, b.player_to_card, rr))

\* play from the statement "self.initialize_given_clue(me, r)" on: the player
\* is to give a clue.  The attribute last_clued_any_clue read by the second
\* loop is assigned nowhere before it is read.
give_clue(m, me, rr) ==
    LET looped(r3) ==
            IF r3.res.err # ""
            THEN PlayRaised([m EXCEPT ![me] = r3.res.b], r3.res.err, r3.res.where)
            ELSE PlayRaised([m EXCEPT ![me] = r3.res.b], "AttributeError", "play")
        initialized(r1) ==
            IF r1.err # "" THEN PlayRaised([m EXCEPT ![me] = r1.b], r1.err, r1.where)
            ELSE looped(clue_players(
                    [r1.b EXCEPT
                        !.modified_player = first_not_playing(r1.b, next(me, rr), rr),
                        !.next_player_actions = <<>>,
                        !.will_be_played = <<>>],
                    me, prev(me, rr), 0, rr))
    IN  initialized(initialize_given_clue(m[me], me, rr))

\* play from the statement "myaction = 'hint', 0" on
act(m, me, rr) ==
    LET \* mm is the memory once the clues of the player are resolved
        free(mm) ==
            LET held == /\ mm[me].safe_discard # NoCard
                        /\ Contains(rr.h[me], mm[me].safe_discard)
                x    == IF held THEN IndexOf(rr.h[me], mm[me].safe_discard) ELSE 3
            IN  IF rr.hints = 0 THEN execute_action(mm, me, Discard(x), rr)
                ELSE give_clue(mm, me, rr)
        resolved(res) ==
            IF res.err # "" THEN PlayRaised([m EXCEPT ![me] = res.b], res.err, res.where)
            ELSE IF res.action.kind \in {"play", "discard"}
            THEN execute_action([m EXCEPT ![me] = res.b], me, res.action, rr)
            ELSE free([m EXCEPT ![me] = res.b])
    IN  IF m[me].given_clues # <<>> THEN resolved(resolve_given_clues(m[me], me, rr))
        ELSE free(m)

\* three players are let through
play_three_players(m, rr) ==
    LET me == rr.whoseTurn
        thought(th) ==
            IF th.err # "" THEN ThinkRaised(th.mem, th.err, th.where)
            ELSE act(th.mem, me, rr)
    IN  IF Len(rr.playHistory) < rr.nPlayers /\ ~rr.allHat
        THEN PlayRaised(m, "NameError", "play")
        ELSE IF rr.playHistory = <<>>
        THEN IF rr.nPlayers <= 2 THEN PlayRaised(m, "NameError", "play")
             ELSE act([i \in 0..(rr.nPlayers - 1) |-> reset_memory(rr)], me, rr)
        ELSE thought(think_all(m, 0, rr))

play(m, rr) ==
    LET me == rr.whoseTurn
        thought(th) ==
            IF th.err # "" THEN ThinkRaised(th.mem, th.err, th.where)
            ELSE act(th.mem, me, rr)
    IN  IF Len(rr.playHistory) < rr.nPlayers /\ ~rr.allHat
        THEN PlayRaised(m, "NameError", "play")
        ELSE IF rr.playHistory = <<>>
        THEN IF rr.nPlayers <= 3 THEN PlayRaised(m, "NameError", "play")
             ELSE act([i \in 0..(rr.nPlayers - 1) |-> reset_memory(rr)], me, rr)
        ELSE thought(think_all(m, 0, rr))

(***************************************************************************)
(* The methods called one at a time on inputs drawn from bounded sets.     *)
(***************************************************************************)
Hands == [1..HandLen -> {Card(nm) : nm \in CardNames}]

\* a hand whose cards other than the newest are fixed
FillerHand(nm) == [k \in 1..HandLen |-> IF k = HandLen THEN Card(nm) ELSE Card(<<"1", "r">>)]

ClueValues == CardRanks \cup AllSuits

\* a game of n players in which player p holds the hand cards
GameWith(n, p, cards, verbose) ==
    [nPlayers |-> n,
     h        |-> [q \in 0..(n - 1) |-> IF q = p THEN cards ELSE FillerHand(<<"1", "r">>)],
     suits    |-> AllSuits,
     verbose  |-> verbose,
     progress |-> [s \in AllSuits |-> 0],
     hints    |-> 8,
     whoseTurn |-> 0,
     playHistory |-> <<>>,
     deck     |-> <<>>,
     allHat   |-> TRUE]

NoMem == [q \in 0..4 |-> 0]

\* what a player may be told to do when it has no play
NonPlays == {Hint0, Discard(0), Discard(3)}

\* player 0 holds a clue of player 1 with the given value, and has just seen
\* the action of `player`
InitUpdate ==
    \E v \in 0..8 : \E player \in 2..3 : \E mp \in 2..3 : \E a \in Actions :
    \E nm \in CardNames : \E lvl \in 0..2 : \E dsc \in NonPlays :
        /\ a.kind = "hint" => nm = <<"1", "r">>
        /\ call = [NoCall EXCEPT !.op = "update_value_after_action", !.n = v,
                      !.me = 0, !.player = player, !.action = a,
                      !.cardname = IF a.kind = "hint" THEN <<"", "">> ELSE nm]
        /\ r = GameWith(4, 0, FillerHand(<<"1", "r">>), FALSE)
        /\ mem = [q \in 0..3 |->
                    IF q # 0 THEN reset_memory(r)
                    ELSE [reset_memory(r) EXCEPT
                            !.modified_player = mp,
                            !.futureprogress = [s \in AllSuits |-> lvl],
                            !.given_clues = <<[value    |-> v,
                                               discards |-> [q2 \in 2..3 |->
                                                   IF q2 = player THEN dsc ELSE Hint0],
                                               cluer    |-> 1,
                                               plays    |-> <<>>]>>]]
        /\ ret = NoRet
        /\ pc = "call"

InitCodec ==
    /\ \/ \E a \in Actions : call = [NoCall EXCEPT !.op = "action_to_number", !.action = a]
       \/ \E n \in 0..8 : call = [NoCall EXCEPT !.op = "number_to_action", !.n = n]
    /\ r = GameWith(4, 0, FillerHand(<<"1", "r">>), FALSE)
    /\ ret = NoRet
    /\ pc = "call"

\* a player about to emit the clue of a number
InitEmit ==
    \E n \in 4..5 : \E me \in 0..(n - 1) : \E c \in 0..8 : \E cards \in Hands :
    \E verbose \in BOOLEAN :
        /\ call = [NoCall EXCEPT !.op = "number_to_clue", !.n = c, !.me = me]
        /\ r = GameWith(n, (me + 1 + c \div 3) % n, cards, verbose)
        /\ ret = NoRet
        /\ pc = "call"

\* any clue of one player to another, just given; the clued hand may carry
\* the mark of an earlier clue
InitHinted ==
    \E n \in 4..5 : \E me \in 0..(n - 1) : \E target \in 0..(n - 1) :
    \E nm \in CardNames : \E value \in ClueValues : \E old \in ClueValues \cup {""} :
        /\ target # me
        /\ call = [NoCall EXCEPT !.op = "clue_to_number", !.me = me]
        /\ LET cards == IF old = "" THEN FillerHand(nm)
                        ELSE EngineMark(FillerHand(nm), old)
           IN  r = EngineHint(GameWith(n, target, cards, FALSE), target, value)
        /\ ret = [NoRet EXCEPT !.clue = [target |-> target, value |-> value]]
        /\ pc = "hinted"

InitUnit ==
    \/ mem = NoMem /\ (InitCodec \/ InitEmit \/ InitHinted)
    \/ InitUpdate

CallActionToNumber ==
    /\ pc = "call" /\ call.op = "action_to_number"
    /\ ret' = [NoRet EXCEPT !.num = action_to_number(call.action)]
    /\ pc' = "done"
    /\ UNCHANGED <<r, mem, call>>

CallNumberToAction ==
    /\ pc = "call" /\ call.op = "number_to_action"
    /\ ret' = [NoRet EXCEPT !.action = number_to_action(call.n)]
    /\ pc' = "done"
    /\ UNCHANGED <<r, mem, call>>

\* the player picks the clue of its number and the engine gives it
CallNumberToClue ==
    /\ pc = "call" /\ call.op = "number_to_clue"
    /\ ret' = number_to_clue(call.n, call.me, r)
    /\ IF ret'.err = ""
       THEN /\ r' = EngineHint(r, ret'.clue.target, ret'.clue.value)
            /\ pc' = "hinted"
       ELSE /\ r' = r
            /\ pc' = "done"
    /\ UNCHANGED <<mem, call>>

\* another player reads the number of the clue on the table
CallClueToNumber ==
    /\ pc = "hinted"
    /\ ret' = [ret EXCEPT !.num = clue_to_number(ret.clue.target, ret.clue.value, call.me, r)]
    /\ pc' = "done"
    /\ UNCHANGED <<r, mem, call>>

CallUpdateValue ==
    /\ pc = "call" /\ call.op = "update_value_after_action"
    /\ LET res == update_value_after_action(mem[call.me], call.action,
                                             call.cardname, call.player)
       IN  /\ mem' = [mem EXCEPT ![call.me] = res.b]
           /\ ret' = [NoRet EXCEPT !.err = res.err]
    /\ pc' = "done"
    /\ UNCHANGED <<r, call>>

NextUnit ==
    \/ CallUpdateValue
    \/ CallActionToNumber
    \/ CallNumberToAction
    \/ CallNumberToClue
    \/ CallClueToNumber

SpecUnit == InitUnit /\ [][NextUnit]_vars

(***************************************************************************)
(* standard_action called on drawn inputs: player 0 is the cluer and works *)
(* out the action of another player.  Its memory holds at most one play    *)
(* told by an earlier clue, as resolve_next_player_actions records it:     *)
(* the player in player_to_card, the card in card_to_player, the rank of   *)
(* the card in futureprogress.                                             *)
(***************************************************************************)
\* the red card that can be played at the level lvl of red
NextRed(lvl) == <<IF lvl = 0 THEN "1" ELSE "2", "r">>

\* the lists of cards played by other players passed as dont_play
DontPlays(lvl) == {<<>>, <<<<"1", "y">>>>, <<NextRed(lvl)>>}

\* the game in which red is at lvl, `player` holds cards and the other
\* players hold red 1s; player q, when it is not `player`, holds nm as its
\* oldest card
ActionGame(lvl, player, cards, q, nm) ==
    [GameWith(4, player, cards, FALSE) EXCEPT
        !.progress = [s \in AllSuits |-> IF s = "r" THEN lvl ELSE 0],
        !.h = [p \in 0..3 |->
                 IF p = player THEN cards
                 ELSE IF p = q
                 THEN [k \in 1..HandLen |-> IF k = 1 THEN Card(nm) ELSE Card(<<"1", "r">>)]
                 ELSE FillerHand(<<"1", "r">>)]]

\* the memory of player 0 when player q has been told to play its slot
Committed(rr, q, slot) ==
    LET name == rr.h[q][slot + 1].name
    IN  [reset_memory(rr) EXCEPT
            !.futureprogress = [rr.progress EXCEPT ![name[2]] = RankNum(name[1])],
            !.card_to_player = [x \in {name} |-> q],
            !.player_to_card = [x \in {q} |-> slot]]

InitStandard ==
    \E lvl \in 0..1 : \E player \in 2..3 : \E cards \in Hands :
    \E dont_play \in DontPlays(lvl) : \E q \in 0..3 : \E slot \in 0..(HandLen - 1) :
        LET rr == ActionGame(lvl, player, cards, q, NextRed(lvl))
        IN  \* q = 0 stands for no player told to play
            /\ q = 0 => slot = 0
            /\ q \notin {0, player} => slot = 0
            /\ q = player => is_cardname_playable(cards[slot + 1].name, rr.progress)
            /\ r = rr
            /\ mem = [p \in 0..3 |->
                        IF p # 0 THEN reset_memory(rr)
                        ELSE [(IF q = 0 THEN [reset_memory(rr) EXCEPT
                                                 !.futureprogress = rr.progress]
                               ELSE Committed(rr, q, slot))
                              EXCEPT !.will_be_played = dont_play]]
            /\ call = [NoCall EXCEPT !.op = "standard_action", !.me = 0, !.cluer = 0,
                                     !.player = player]
            /\ ret = NoRet
            /\ pc = "call"

CallStandardAction ==
    /\ pc = "call" /\ call.op = "standard_action"
    /\ LET b == mem[call.me]
           x == standard_action(call.me, call.cluer, call.player, b.will_be_played,
                                b.futureprogress, b.card_to_player, b.player_to_card, r)
       IN  ret' = [NoRet EXCEPT !.err = x.err, !.action = x.action]
    /\ pc' = "done"
    /\ UNCHANGED <<r, mem, call>>

\* the hands of the players the cluer walks over
PassHands ==
    {FillerHand(nm) : nm \in CardNames}
    \cup {[k \in 1..HandLen |-> IF k = 2 THEN Card(<<"2", "r">>) ELSE Card(<<"1", "y">>)]}

\* Player 0 is about to work out its clue: it walks from player 3 back to the
\* first player after it that has not been told to play.
InitPass ==
    \E lvl \in 0..1 : \E hands \in [2..3 -> PassHands] :
    \E q \in 0..3 : \E slot \in 0..(HandLen - 1) :
        LET rr == [GameWith(4, 0, FillerHand(<<"1", "r">>), FALSE) EXCEPT
                      !.progress = [s \in AllSuits |-> IF s = "r" THEN lvl ELSE 0],
                      !.h = [p \in 0..3 |-> IF p \in 2..3 THEN hands[p]
                                            ELSE FillerHand(<<"1", "r">>)]]
        IN  \* q = 0 stands for no player told to play
            /\ q = 0 => slot = 0
            /\ q # 0 => is_cardname_playable(rr.h[q][slot + 1].name, rr.progress)
            /\ r = rr
            /\ mem = [p \in 0..3 |->
                        IF p # 0 THEN reset_memory(rr)
                        ELSE IF q = 0
                        THEN [reset_memory(rr) EXCEPT !.futureprogress = rr.progress]
                        ELSE Committed(rr, q, slot)]
            /\ call = [NoCall EXCEPT !.op = "clue_players", !.me = 0, !.cluer = 0]
            /\ ret = NoRet
            /\ pc = "call"

\* the first loop of play
CallCluePlayers ==
    /\ pc = "call" /\ call.op = "clue_players"
    /\ LET b  == mem[call.me]
           b2 == [b EXCEPT !.modified_player = first_not_playing(b, next(call.me, r), r),
                           !.next_player_actions = <<>>,
                           !.will_be_played = <<>>]
           walked(r3) ==
               /\ mem' = [mem EXCEPT ![call.me] = r3.res.b]
               /\ ret' = [NoRet EXCEPT !.err = r3.res.err, !.where = r3.res.where,
                                       !.num = r3.cluenumber]
       IN  walked(clue_players(b2, call.me, prev(call.me, r), 0, r))
    /\ pc' = "done"
    /\ UNCHANGED <<r, call>>

\* Player 0 has walked over the players of its clue and works out the
\* action of the first of them.  With five, red is at 4 and player 1 has been
\* told by an earlier clue to play its red 5, so that the first player of the
\* clue is player 2; otherwise it is player 1.
InitModified ==
    \E five \in BOOLEAN : \E cards \in Hands : \E hints \in {1, 8} :
        LET player == IF five THEN 2 ELSE 1
            rr == [ActionGame(IF five THEN 4 ELSE 0, player, cards, 1, <<"5", "r">>)
                      EXCEPT !.hints = hints]
        IN  /\ r = rr
            /\ mem = [p \in 0..3 |->
                        IF p # 0 THEN reset_memory(rr)
                        ELSE IF five
                        THEN [Committed(rr, 1, 0) EXCEPT !.modified_player = player]
                        ELSE [reset_memory(rr) EXCEPT !.modified_player = player,
                                                      !.futureprogress = rr.progress]]
            /\ call = [NoCall EXCEPT !.op = "modified_action", !.me = 0, !.cluer = 0,
                                     !.player = player]
            /\ ret = NoRet
            /\ pc = "call"

CallModifiedAction ==
    /\ pc = "call" /\ call.op = "modified_action"
    /\ LET b == mem[call.me]
           x == modified_action(call.me, call.cluer, call.player, b.will_be_played,
                                b.futureprogress, <<>>, <<>>, r)
       IN  ret' = [NoRet EXCEPT !.err = x.err, !.action = x.action,
                                !.where = IF x.err = "" THEN "" ELSE "modified_action"]
    /\ pc' = "done"
    /\ UNCHANGED <<r, mem, call>>

(***************************************************************************)
(* The projection of the hint tokens over the actions of a clue.           *)
(***************************************************************************)
\* the longest list of projected actions of one clue
MaxChanges == 3

Max(a, b) == IF a >= b THEN a ELSE b

Min(a, b) == IF a <= b THEN a ELSE b

\* the attributes of the projection at the beginning of a clue, the count of
\* hint tokens being the one initialize_future_prediction has left
initialize_future_clue(futurehints) ==
    [futurehints |-> futurehints, min_futurehints |-> futurehints,
     max_futurehints |-> futurehints, cards_played |-> 0, cards_discarded |-> 0,
     will_be_played |-> <<>>, hint_changes |-> <<>>]

\* the action of player i is recorded: 1 for the play of a 5, 2 for a
\* discard, -1 for a hint, nothing for another play
finalize_future_action(f, action, i, me, rr) ==
    IF i = me THEN Raise(f, "AssertionError", "finalize_future_action")
    ELSE IF action.kind # "hint"
    THEN IF action.kind = "play"
         THEN LET name == rr.h[i][action.slot + 1].name
                  f2   == [f EXCEPT !.cards_played = @ + 1,
                                    !.will_be_played = Append(@, name)]
              IN  IF name[1] = "5"
                  THEN Ok([f2 EXCEPT !.hint_changes = Append(@, 1)])
                  ELSE Ok(f2)
         ELSE Ok([f EXCEPT !.cards_discarded = @ + 1,
                           !.hint_changes = Append(@, 2)])
    ELSE Ok([f EXCEPT !.hint_changes = Append(@, -1)])

\* a discard at 8 tokens leaves 8 of them
count_hints_capped(f) ==
    LET RECURSIVE loop(_, _)
        loop(g, k) ==
            IF k = 0 THEN g
            ELSE LET i == g.hint_changes[k]
                     n == g.futurehints + (IF i = 2 THEN 1 ELSE i)
                 IN  loop([g EXCEPT !.futurehints = IF n < 0 THEN 1 ELSE Min(n, 8),
                                    !.max_futurehints = Max(n, @),
                                    !.min_futurehints = IF i = 2 THEN @ ELSE Min(n, @)],
                          k - 1)
    IN  loop([f EXCEPT !.min_futurehints = f.futurehints,
                       !.max_futurehints = f.futurehints], Len(f.hint_changes))

\* the list of changes is walked from its last entry to its first
count_hints(f) ==
    LET RECURSIVE loop(_, _)
        loop(g, k) ==
            IF k = 0 THEN g
            ELSE LET i == g.hint_changes[k]
                 IN  IF i = 2
                     THEN LET n == g.futurehints + 1
                          IN  loop([g EXCEPT !.futurehints = IF n > 8 THEN 7 ELSE n,
                                             !.max_futurehints = Max(n, @)], k - 1)
                     ELSE LET n == g.futurehints + i
                          IN  loop([g EXCEPT !.futurehints = IF n < 0 THEN 1
                                                             ELSE IF n > 8 THEN 8 ELSE n,
                                             !.max_futurehints = Max(n, @),
                                             !.min_futurehints = Min(n, @)], k - 1)
    IN  loop([f EXCEPT !.min_futurehints = f.futurehints,
                       !.max_futurehints = f.futurehints], Len(f.hint_changes))

\* what player 1, holding a red 5 as its oldest card and red 1s, may be
\* projected to do
ProjectedActions == {Play(0), Play(1), Discard(0), Hint0}

StepLists == UNION {[1..n -> ProjectedActions] : n \in 0..MaxChanges}

\* player 0 projects the actions of player 1 from a count of hint tokens
InitCount ==
    \E n \in 0..8 : \E steps \in StepLists :
        LET rr == ActionGame(0, 2, FillerHand(<<"1", "r">>), 1, <<"5", "r">>)
        IN  /\ r = rr
            /\ mem = [p \in 0..3 |-> reset_memory(rr)]
            /\ call = [NoCall EXCEPT !.op = "count_hints", !.me = 0, !.player = 1,
                                     !.n = n, !.steps = steps]
            /\ ret = NoRet
            /\ pc = "call"

CallCountHints ==
    /\ pc = "call" /\ call.op = "count_hints"
    /\ LET RECURSIVE record(_, _)
           record(f, k) ==
               IF k > Len(call.steps) THEN f
               ELSE record(finalize_future_action(f, call.steps[k], call.player,
                                                  call.me, r).b, k + 1)
           counted(f) ==
               ret' = [NoRet EXCEPT !.num = f.futurehints, !.queue = f.hint_changes]
       IN  counted(count_hints(record(initialize_future_clue(call.n), 1)))
    /\ pc' = "done"
    /\ UNCHANGED <<r, mem, call>>


(***************************************************************************)
(* hard_discards, which modified_action calls for the first player of a    *)
(* clue that has neither a play nor an easy discard.                       *)
(***************************************************************************)
\* the cards of which the discard pile, a list of card names, holds no copy
get_nonvisible_cards(cards, discardpile) ==
    SelectSeq(cards, LAMBDA c : ~Contains(discardpile, c.name))

\* the first card of the highest rank
find_highest(cards) ==
    cards[CHOOSE k \in 1..Len(cards) :
            /\ \A j \in 1..Len(cards) :
                  RankNum(cards[k].name[1]) >= RankNum(cards[j].name[1])
            /\ \A j \in 1..(k - 1) :
                  RankNum(cards[j].name[1]) < RankNum(cards[k].name[1])]

hard_discards(cards, dont_play, progress, rr) ==
    LET told == SelectSeq(cards, LAMBDA c : Contains(dont_play, c.name))
        discardCards ==
            SelectSeq(get_nonvisible_cards(cards, rr.discardpile),
                      LAMBDA c : c.name[1] # "5")
    IN  IF told # <<>> THEN [err |-> "", action |-> Discard(IndexOf(cards, told[1]))]
        ELSE IF \E k \in 1..Len(discardCards) : discardCards[k].name[1] = "1"
        THEN [err |-> "AssertionError", action |-> Hint0]
        ELSE IF discardCards # <<>>
        THEN [err |-> "", action |-> Discard(IndexOf(cards, find_highest(discardCards)))]
        ELSE [err |-> "", action |-> Hint0]

\* the discard piles of the positions drawn
DiscardPiles == {<<>>, << <<"1", "r">> >>, << <<"2", "y">> >>}

\* Player 0 works out the action of player 1, the first player of its clue:
\* standard_action gives a hint, so that player 1 has neither a play nor an
\* easy discard.  Red is at lvl, and at fut in the futureprogress of player 0.
InitHard ==
    \E lvl \in 0..1 : \E fut \in 0..1 : \E cards \in Hands :
    \E dont_play \in DontPlays(lvl) : \E pile \in DiscardPiles :
        LET rr == [discardpile |-> pile] @@ ActionGame(lvl, 1, cards, 1, cards[1].name)
            fp == [rr.progress EXCEPT !["r"] = fut]
            x  == standard_action(0, 0, 1, dont_play, fp, <<>>, <<>>, rr)
        IN  /\ x.err = "" /\ x.action = Hint0
            /\ r = rr
            /\ mem = [p \in 0..3 |->
                        IF p # 0 THEN reset_memory(rr)
                        ELSE [reset_memory(rr) EXCEPT !.modified_player = 1,
                                                      !.futureprogress = fp,
                                                      !.will_be_played = dont_play]]
            /\ call = [NoCall EXCEPT !.op = "hard_discards", !.me = 0, !.cluer = 0,
                                     !.player = 1]
            /\ ret = NoRet
            /\ pc = "call"

CallHardDiscards ==
    /\ pc = "call" /\ call.op = "hard_discards"
    /\ LET b == mem[call.me]
           y == hard_discards(r.h[call.player], b.will_be_played, b.futureprogress, r)
       IN  ret' = [NoRet EXCEPT !.err = y.err, !.action = y.action,
                                !.where = IF y.err = "" THEN "" ELSE "hard_discards"]
    /\ pc' = "done"
    /\ UNCHANGED <<r, mem, call>>

InitAction == InitStandard \/ InitPass \/ InitModified \/ InitCount \/ InitHard

NextAction ==
    \/ CallStandardAction \/ CallCluePlayers \/ CallModifiedAction
    \/ CallCountHints \/ CallHardDiscards

SpecAction == InitAction /\ [][NextAction]_vars

(***************************************************************************)
(* The game: the engine calls play for the player whose turn it is and     *)
(* carries out the action returned.                                        *)
(***************************************************************************)
RemoveAt(seq, k) == [j \in 1..(Len(seq) - 1) |-> IF j < k THEN seq[j] ELSE seq[j + 1]]

\* the game after the action of the player whose turn it is
EngineApply(rr, action, clue) ==
    LET me    == rr.whoseTurn
        card  == rr.h[me][action.slot + 1]
        rest  == RemoveAt(rr.h[me], action.slot + 1)
        hand  == IF rr.deck = <<>> THEN rest ELSE Append(rest, Card(Head(rr.deck)))
        deck  == IF rr.deck = <<>> THEN <<>> ELSE Tail(rr.deck)
        good  == is_cardname_playable(card.name, rr.progress)
        moved == [rr EXCEPT !.h[me] = hand, !.deck = deck,
                            !.whoseTurn = next(me, rr),
                            !.playHistory =
                                Append(@, RawCard(action.kind, action.slot, card.name))]
    IN  CASE action.kind = "hint" ->
                [EngineHint(rr, clue.target, clue.value) EXCEPT
                    !.hints = @ - 1,
                    !.whoseTurn = next(me, rr),
                    !.playHistory = Append(@, RawHint(clue.target, clue.value))]
          [] action.kind = "discard" ->
                [moved EXCEPT !.hints = IF @ < 8 THEN @ + 1 ELSE @]
          [] action.kind = "play" ->
                IF good
                THEN [moved EXCEPT !.progress[card.name[2]] = @ + 1,
                                   !.hints = IF card.name[1] = "5" /\ @ < 8
                                             THEN @ + 1 ELSE @]
                ELSE moved

Turn ==
    LET \* out is the outcome of play; th is the outcome of its loop over
        \* think_at_turn_start, which gives the player whose thinking raised
        \* and the clues the player holds when it decides
        ended(out, th) ==
            /\ mem' = out.mem
            /\ ret' = [NoRet EXCEPT !.err = out.err, !.where = out.where,
                                    !.action = out.action, !.clue = out.clue,
                                    !.none = out.none, !.thought = out.thought,
                                    !.me = r.whoseTurn,
                                    !.at = th.at,
                                    !.queue = th.mem[r.whoseTurn].given_clues,
                                    !.last = IF r.playHistory = <<>> THEN NoRet.last
                                             ELSE r.playHistory[Len(r.playHistory)],
                                    !.hints = r.hints,
                                    !.progress = r.progress,
                                    !.hand = r.h[r.whoseTurn],
                                    !.handlen = Len(r.h[r.whoseTurn])]
            /\ IF out.err # "" \/ out.none
               THEN /\ r' = r
                    /\ pc' = "done"
               ELSE /\ r' = EngineApply(r, out.action, out.clue)
                    /\ pc' = "call"
    IN  /\ pc = "call" /\ call.op = "play"
        /\ ended(play(mem, r),
                 IF r.playHistory = <<>>
                 THEN [mem |-> mem, err |-> "", where |-> "", at |-> -1]
                 ELSE think_all(mem, 0, r))
        /\ UNCHANGED call

\* a hand of `size` cards whose newest card is nm
Filler(nm, size) == [k \in 1..size |-> IF k = size THEN Card(nm) ELSE Card(<<"1", "r">>)]

\* the cards dealt to a player
HandSize(n) == IF n >= 4 THEN 4 ELSE 5

DealNames == {<<"1", s>> : s \in CardSuits}

StartDeck == << <<"2", "r">>, <<"1", "y">>, <<"2", "y">> >>

\* the start of a game of hat players
Init ==
    \E n \in 2..5 : \E deal \in [0..(n - 1) -> DealNames] :
        /\ r = [nPlayers    |-> n,
                h           |-> [q \in 0..(n - 1) |-> Filler(deal[q], HandSize(n))],
                suits       |-> AllSuits,
                verbose     |-> FALSE,
                progress    |-> [s \in AllSuits |-> 0],
                hints       |-> 8,
                whoseTurn   |-> 0,
                playHistory |-> <<>>,
                deck        |-> StartDeck,
                allHat      |-> TRUE]
        /\ mem = [q \in 0..(n - 1) |-> reset_memory(r)]
        /\ call = [NoCall EXCEPT !.op = "play"]
        /\ ret = NoRet
        /\ pc = "call"

Next == Turn

Spec == Init /\ [][Next]_vars

(***************************************************************************)
(* Turns taken from a position in the middle of a game.                    *)
(***************************************************************************)
OthersOf(n, a, b) == (0..(n - 1)) \ {a, b}

\* the values of the clues a player holds at its turn: none, one or two
DecodeQueues ==
    {<<>>} \cup {<<v>> : v \in 0..8} \cup {<<v, w>> : v \in 0..8, w \in {0, 5}}

\* the card a player remembers as safe to discard: none, its oldest card, or
\* a card it no longer holds
SafeCards == {NoCard, Card(<<"1", "r">>), Card(<<"2", "r">>)}

\* a clue of player cluer as player me holds it
HeldClue(value, me, cluer) ==
    [value    |-> value,
     discards |-> [q \in OthersOf(4, me, cluer) |-> Hint0],
     cluer    |-> cluer,
     plays    |-> <<>>]

\* It is the turn of player me, who holds the clues of the values of queue:
\* the first of the player after it, the second of the player after that
\* one.  The player before it has just discarded its oldest card; with
\* prevHeld it did so on the only clue it holds, a clue of player me.
InitDecode ==
    \E me \in 0..3 : \E size \in 3..4 : \E nm \in DealNames : \E hints \in {0, 4, 8} :
    \E queue \in DecodeQueues : \E prevHeld \in BOOLEAN :
    \E safe \in (IF queue = <<>> THEN SafeCards ELSE {NoCard}) :
        /\ r = [nPlayers    |-> 4,
                h           |-> [q \in 0..3 |->
                                   IF q = me THEN Filler(nm, size)
                                   ELSE Filler(<<"2", "y">>, size)],
                suits       |-> AllSuits,
                verbose     |-> FALSE,
                progress    |-> [s \in AllSuits |-> 0],
                hints       |-> hints,
                whoseTurn   |-> me,
                playHistory |-> <<RawCard("discard", 0, <<"1", "r">>)>>,
                deck        |-> IF size = 4 THEN StartDeck ELSE <<>>,
                allHat      |-> TRUE]
        /\ mem = [q \in 0..3 |->
                    IF q = me
                    THEN [reset_memory(r) EXCEPT
                            !.modified_player = (me + 2) % 4,
                            !.safe_discard = safe,
                            !.given_clues =
                                [k \in 1..Len(queue) |->
                                    HeldClue(queue[k], me, (me + k) % 4)]]
                    ELSE IF q = (me + 3) % 4 /\ prevHeld
                    THEN [reset_memory(r) EXCEPT
                            !.modified_player = (me + 1) % 4,
                            !.safe_discard = Card(<<"1", "r">>),
                            !.given_clues = <<HeldClue(8, q, me)>>]
                    ELSE reset_memory(r)]
        /\ call = [NoCall EXCEPT !.op = "play", !.cluer = (me + 1) % 4,
                                 !.player = IF prevHeld THEN (me + 3) % 4 ELSE -1]
        /\ ret = NoRet
        /\ pc = "call"

\* The actions the cluer `me` computes for the other players while it builds
\* its clue: standard_action for the players after modified_player (the first
\* loop of play) and the action of modified_player, which is its
\* standard_action when that is a play and its hand holds no 5.
signaled_actions(b, me, rr) ==
    LET n  == rr.nPlayers
        first == first_not_playing(b, next(me, rr), rr)
        b2 == [b EXCEPT !.modified_player = first,
                        !.next_player_actions = <<>>,
                        !.will_be_played = <<>>]
        computed(r3, x) ==
            [err        |-> IF r3.res.err # "" THEN r3.res.err ELSE x.err,
             first      |-> first,
             cluenumber |-> (r3.cluenumber + action_to_number(x.action)) % 9,
             chain      |-> [a \in (0..(n - 1)) \ {me} |->
                                IF a = first THEN x.action
                                ELSE r3.res.b.next_player_actions[(me - a) % n]]]
        looped(r3) ==
            computed(r3, standard_action(me, me, first, r3.res.b.will_be_played,
                                         r3.res.b.futureprogress, <<>>, <<>>, rr))
    IN  looped(clue_players(b2, me, prev(me, rr), 0, rr))

TrackHands ==
    {Filler(nm, 4) : nm \in {<<"1", "r">>, <<"1", "y">>, <<"2", "y">>}}
    \cup {<<Card(<<"1", "y">>), Card(<<"2", "r">>), Card(<<"1", "r">>), Card(<<"2", "y">>)>>}

\* the game at the turn of player c, who is to give a clue
TrackGame(c, hands) ==
    [nPlayers    |-> 4,
     h           |-> hands,
     suits       |-> AllSuits,
     verbose     |-> FALSE,
     progress    |-> [s \in AllSuits |-> 0],
     hints       |-> 8,
     whoseTurn   |-> c,
     playHistory |-> [k \in 1..c |-> RawCard("discard", 0, <<"1", "r">>)],
     deck        |-> StartDeck,
     allHat      |-> TRUE]

\* the game once player c has given the clue
HintedGame(r0, c, clue) ==
    [EngineHint(r0, clue.target, clue.value) EXCEPT
        !.hints = 7,
        !.whoseTurn = next(c, r0),
        !.playHistory = Append(@, RawHint(clue.target, clue.value))]

\* Player c has given the clue of the actions it computed for the others, the
\* others hold it as think_at_turn_start enqueues a clue, and the player after
\* c has decoded a play and carried it out: it is the turn of the next player.
\* The clue is one that reads back as the number it was chosen for.
InitTracking ==
    \E c \in 0..3 : \E hands \in [0..3 -> TrackHands] :
        LET r0  == TrackGame(c, hands)
            \* the first player of the clue has acted
            acted(sig, r1, out) ==
                /\ out.err = "" /\ ~out.none
                /\ r = EngineApply(r1, out.action, out.clue)
                /\ mem = out.mem
                /\ call = [NoCall EXCEPT !.op = "play", !.cluer = c, !.chain = sig.chain]
                /\ ret = NoRet
                /\ pc = "call"
            \* the others hold the clue
            enqueued(sig, r1, enq) ==
                /\ \A q \in (0..3) \ {c} : enq[q].err = ""
                /\ acted(sig, r1,
                         act([q \in 0..3 |-> IF q = c THEN reset_memory(r0) ELSE enq[q].b],
                             r1.whoseTurn, r1))
            \* the clue is given
            hinted(sig, nc, raw, r1) ==
                /\ clue_to_number(nc.clue.target, nc.clue.value, c, r1) = sig.cluenumber
                /\ enqueued(sig, r1,
                            [q \in 0..3 |-> enqueue_clue(reset_memory(r0), q, c, raw, r1)])
            clued(sig, nc) ==
                /\ nc.err = ""
                /\ hinted(sig, nc, RawHint(nc.clue.target, nc.clue.value),
                          HintedGame(r0, c, nc.clue))
            signaled(sig) ==
                /\ sig.err = ""
                /\ sig.chain[sig.first].kind = "play"
                /\ clued(sig, number_to_clue(sig.cluenumber, c, r0))
        IN  signaled(signaled_actions(reset_memory(r0), c, r0))

\* Player c has just given the clue of the actions it computed for the
\* others, and nobody has thought about it yet: it is the turn of the player
\* after c.
InitObserve ==
    \E c \in 0..3 : \E hands \in [0..3 -> TrackHands] :
        LET r0  == TrackGame(c, hands)
            clued(nc) ==
                /\ nc.err = ""
                /\ r = HintedGame(r0, c, nc.clue)
                /\ mem = [q \in 0..3 |-> reset_memory(r0)]
                /\ call = [NoCall EXCEPT !.op = "play", !.cluer = c]
                /\ ret = NoRet
                /\ pc = "call"
            signaled(sig) ==
                /\ sig.err = ""
                /\ clued(number_to_clue(sig.cluenumber, c, r0))
        IN  signaled(signaled_actions(reset_memory(r0), c, r0))

InitTurn == InitDecode \/ InitTracking \/ InitObserve

SpecTurn == InitTurn /\ [][Turn]_vars

(***************************************************************************)
(* The cheating player, who looks at its own cards.  A card is named by    *)
(* its rank and suit; r.discardpile is the list of the names of the cards  *)
(* discarded, r.deck the cards not yet drawn, and r.gameOverTimer is None  *)
(* (here -1) until the deck is empty.                                      *)
(***************************************************************************)
None == -1

names(cards) == [k \in 1..Len(cards) |-> cards[k].name]

\* list.count
Count(seq, x) == Cardinality({k \in 1..Len(seq) : seq[k] = x})

\* the copies of a card in the deck of a suit: three 1s, one 5, two others
number_of_copies(cardname) ==
    IF cardname[1] = "1" THEN 3 ELSE IF cardname[1] = "5" THEN 1 ELSE 2

RankChar(k) == CASE k = 1 -> "1" [] k = 2 -> "2" [] k = 3 -> "3" [] k = 4 -> "4" [] k = 5 -> "5"

\* the hands of the players from player p on, one after the other
RECURSIVE hands_from(_, _)
hands_from(p, rr) ==
    IF p >= rr.nPlayers THEN <<>> ELSE rr.h[p] \o hands_from(p + 1, rr)

get_all_cards(rr) == hands_from(0, rr)

get_all_visible_cards(player, rr) ==
    hands_from(0, [rr EXCEPT !.h[player] = <<>>])

is_playable(card, progress) == is_cardname_playable(card.name, progress)

has_been_played(card, progress) == RankNum(card.name[1]) <= progress[card.name[2]]

get_plays(cards, progress) == SelectSeq(cards, LAMBDA c : is_playable(c, progress))

\* the cards not yet played
get_usefuls(cards, progress) == SelectSeq(cards, LAMBDA c : ~has_been_played(c, progress))

\* the cards of the first list that have a copy in the second
get_visible_cards(cards, visible) ==
    SelectSeq(cards, LAMBDA c : Contains(names(visible), c.name))

\* the highest rank a suit can still reach: every rank up to it has a copy
\* that is not discarded
RECURSIVE reachable_rank(_, _, _)
reachable_rank(suit, k, rr) ==
    IF k < 5 /\ Count(rr.discardpile, <<RankChar(k + 1), suit>>)
                   < number_of_copies(<<RankChar(k + 1), suit>>)
    THEN reachable_rank(suit, k + 1, rr)
    ELSE k

\* the names of the cards that can still be played at some time
get_all_useful_cardnames(rr) ==
    {<<RankChar(k), s>> : k \in 1..5, s \in rr.suits}
    \cap {nm \in {<<RankChar(k), s>> : k \in 1..5, s \in rr.suits} :
            /\ RankNum(nm[1]) > rr.progress[nm[2]]
            /\ RankNum(nm[1]) <= reachable_rank(nm[2], rr.progress[nm[2]], rr)}

RECURSIVE SumOver(_, _, _)
SumOver(S, progress, rr) ==
    IF S = {} THEN 0
    ELSE LET s == CHOOSE x \in S : TRUE
         IN  (reachable_rank(s, progress[s], rr) - progress[s])
             + SumOver(S \ {s}, progress, rr)

\* the number of cards that can still be played
count_unplayed_playable_cards(rr, progress) == SumOver(rr.suits, progress, rr)

\* the last copy of a card that can still be played
is_critical(cardname, rr) ==
    /\ cardname \in get_all_useful_cardnames(rr)
    /\ Count(rr.discardpile, cardname) + 1 = number_of_copies(cardname)

get_criticals(cards, rr) == SelectSeq(cards, LAMBDA c : is_critical(c.name, rr))

\* f, a lambda on cards in the code, is a function on the cards of a hand
find_all_lowest(cards, f) ==
    SelectSeq(cards, LAMBDA c : \A j \in 1..Len(cards) : f[c] <= f[cards[j]])

find_all_highest(cards, f) ==
    SelectSeq(cards, LAMBDA c : \A j \in 1..Len(cards) : f[c] >= f[cards[j]])

\* the players after me, in turn order
other_players(me, rr) == [k \in 1..(rr.nPlayers - 1) |-> (me + k) % rr.nPlayers]

\* lst[0:k]
FirstOnes(lst, k) == SubSeq(lst, 1, Min(k, Len(lst)))

\* the sum of the values of progress
RECURSIVE SumProgress(_, _)
SumProgress(S, progress) ==
    IF S = {} THEN 0
    ELSE LET s == CHOOSE x \in S : TRUE
         IN  progress[s] + SumProgress(S \ {s}, progress)

\* the list without the later copies of a name
RECURSIVE Distinct(_)
Distinct(cards) ==
    IF cards = <<>> THEN <<>>
    ELSE LET front == Distinct(SubSeq(cards, 1, Len(cards) - 1))
             last  == cards[Len(cards)]
         IN  IF Contains(names(front), last.name) THEN front ELSE Append(front, last)

\* the players who hold a card of the name, in the order of range(nPlayers)
players_with(cardname, rr) ==
    SelectSeq([k \in 1..rr.nPlayers |-> k - 1],
              LAMBDA pl : Contains(names(rr.h[pl]), cardname))

a_copy_of_all_useful_cards_is_drawn(rr) ==
    \A nm \in get_all_useful_cardnames(rr) : Contains(names(get_all_cards(rr)), nm)

all_useful_cards_are_drawn(rr) ==
    \A nm \in get_all_useful_cardnames(rr) :
        Count(rr.discardpile, nm) + Count(names(get_all_cards(rr)), nm)
            >= number_of_copies(nm)

\* what play returns: the kind of the action, the card played or discarded,
\* and the clue given
CheatPlay(card) == [kind |-> "play", card |-> card, clue |-> NoClue]

CheatDiscard(card) == [kind |-> "discard", card |-> card, clue |-> NoClue]

give_a_hint(me, rr) ==
    LET target == next(me, rr)
    IN  [kind |-> "hint", card |-> NoCard,
         clue |-> [target |-> target,
                   value  |-> rr.h[target][Len(rr.h[target])].name[1]]]

\* the badness of the least bad discard of player, and the card
want_to_discard(cards, player, rr) ==
    LET critical_fours == {s \in rr.suits : is_critical(<<"4", s>>, rr)}
        base_badness ==
            IF /\ rr.nPlayers = 2
               /\ critical_fours # {}
               /\ \E k \in 1..Len(cards) :
                     /\ cards[k].name[2] \in critical_fours
                     /\ RankNum(cards[k].name[1]) \in 4..5
            THEN 6 ELSE 0
        played   == get_played_cards(cards, rr.progress)
        dup      == get_duplicate_cards(cards)
        visible  == get_visible_cards(cards, get_all_visible_cards(player, rr))
        safe     == SelectSeq(cards, LAMBDA c : ~is_critical(c.name, rr))
    IN  IF played # <<>> THEN [badness |-> 1 + base_badness, card |-> played[1]]
        ELSE IF dup # <<>> THEN [badness |-> 1 + base_badness, card |-> dup[1]]
        ELSE IF visible # <<>>
        THEN [badness |-> 8 - rr.nPlayers + base_badness, card |-> find_lowest(visible)]
        ELSE IF safe # <<>>
        THEN [badness |-> 80 - 10 * RankNum(find_highest(safe).name[1]) + base_badness,
              card |-> find_highest(safe)]
        ELSE [badness |-> 600 - 100 * RankNum(find_highest(cards).name[1]),
              card |-> find_highest(cards)]

\* the number of cards still to be played, minus the size of the deck
endgame(rr) == count_unplayed_playable_cards(rr, rr.progress) - Len(rr.deck)

\* the players who hold a playable card
players_with_plays(rr) ==
    {pl \in 0..(rr.nPlayers - 1) : get_plays(rr.h[pl], rr.progress) # <<>>}

\* play when the player holds a playable card (lines 152-214)
play_playable(rr) ==
    LET me       == rr.whoseTurn
        cards    == rr.h[me]
        progress == rr.progress
        usefulCards   == Distinct(get_usefuls(cards, progress))
        criticalCards == get_criticals(cards, rr)
        reversed == Reverse(Distinct(get_plays(cards, progress)))
        first    == reversed[1]
        suit     == first.name[2]
        with_5   == players_with(<<"5", suit>>, rr)
        with_4   == players_with(first.name, rr)
        \* I have one useful card and the others are drawn
        only_one ==
            /\ Len(usefulCards) = 1
            /\ \/ a_copy_of_all_useful_cards_is_drawn(rr)
               \/ rr.nPlayers = 2 /\ get_plays(rr.h[next(me, rr)], progress) # <<>>
        stall_5  == only_one /\ first.name[1] = "5"
        stall_4  ==
            /\ only_one /\ first.name[1] = "4"
            /\ \/ with_5 = <<>>
               \/ \E k \in 1..Len(rr.h[with_5[1]]) :
                     /\ is_playable(rr.h[with_5[1]][k], progress)
                     /\ is_critical(rr.h[with_5[1]][k].name, rr)
        last_card ==
            /\ Len(rr.deck) = 1 /\ Len(usefulCards) = 1
            /\ \E k \in 1..Len(FirstOnes(other_players(me, rr), rr.hints)) :
                  LET pl == other_players(me, rr)[k]
                  IN  /\ Len(get_criticals(rr.h[pl], rr)) >= 2
                      /\ get_plays(rr.h[pl], progress) # <<>>
        let_play ==
            /\ Len(reversed) = 1 /\ Len(usefulCards) > 1
            /\ first.name[1] = "4" /\ with_4 # <<>>
            /\ Len(get_usefuls(rr.h[with_4[1]], progress)) = 1
            /\ \/ ~(with_5 # <<>> /\ is_between(with_5[1], next(me, rr), with_4[1]))
               \/ ~(\/ /\ get_plays(rr.h[with_5[1]], progress) = <<>>
                       /\ Len(get_usefuls(rr.h[with_5[1]], progress)) >= 2
                    \/ Len(rr.deck)
                         <= Cardinality({pl \in players_with_plays(rr) :
                                            is_between(pl, next(me, rr), with_5[1])}))
        held     == {cards[k] : k \in 1..Len(cards)}
        rank     == [c \in held |-> RankNum(c.name[1])]
        critical == [c \in held |-> IF is_critical(c.name, rr) THEN 1 ELSE 0]
        seen     == [c \in held |->
                        IF Contains(names(get_all_visible_cards(me, rr)), c.name)
                        THEN 1 ELSE 0]
        \* 5s before the 4s whose 5 I hold
        fives    == IF Len(reversed) >= 2 /\ \E k \in 1..Len(reversed) : reversed[k].name[1] = "5"
                    THEN SelectSeq(reversed, LAMBDA c :
                            ~(c.name[1] = "4" /\ Contains(names(cards), <<"5", c.name[2]>>)))
                    ELSE reversed
        chosen   == IF /\ rr.gameOverTimer = None
                       /\ ~(/\ Len(rr.deck) <= Cardinality(players_with_plays(rr))
                            /\ Len(criticalCards) >= 2)
                    THEN find_all_highest(find_all_lowest(fives, rank), critical)
                    ELSE find_all_lowest(find_all_highest(fives, critical), rank)
    IN  IF /\ endgame(rr) > 0 /\ rr.gameOverTimer = None /\ rr.hints # 0
           /\ (stall_5 \/ stall_4 \/ last_card \/ let_play)
        THEN give_a_hint(me, rr)
        ELSE CheatPlay(find_all_lowest(chosen, seen)[1])

\* the hint tokens after a round in which the others play what they can,
\* from the k-th of the players after me on, and the cards left in the deck
RECURSIVE round_after(_, _, _, _)
round_after(k, temphints, tempdeck, rr) ==
    IF k > rr.nPlayers - 1 THEN [temphints |-> temphints, tempdeck |-> tempdeck]
    ELSE LET pl    == other_players(rr.whoseTurn, rr)[k]
             plays == get_plays(rr.h[pl], rr.progress)
             h1    == IF \E j \in 1..Len(plays) : plays[j].name[1] = "5"
                      THEN temphints + 1 ELSE temphints
             h2    == IF plays = <<>> THEN h1 - 1 ELSE h1
             d1    == IF plays # <<>> THEN tempdeck - 1 ELSE tempdeck
         IN  IF h2 < 0 THEN [temphints |-> h2, tempdeck |-> d1]
             ELSE round_after(k + 1, h2, d1, rr)

\* the badness of the discards of the players who move before the hints run out
other_badness(rr) ==
    LET me   == rr.whoseTurn
        mine == Len(get_criticals(rr.h[me], rr))
    IN  [k \in 1..Len(FirstOnes(other_players(me, rr), rr.hints)) |->
            LET pl == other_players(me, rr)[k]
            IN  IF get_plays(rr.h[pl], rr.progress) # <<>> THEN 0
                ELSE want_to_discard(rr.h[pl], pl, rr).badness
                     + Min(9, Max(0, 7 * (Len(get_criticals(rr.h[pl], rr)) - mine)))]

\* play from the statement "if endgame > 0" of line 252 on: the player holds
\* no playable card and between 1 and 7 hint tokens
play_stalled(rr) ==
    LET me       == rr.whoseTurn
        cards    == rr.h[me]
        progress == rr.progress
        usefulCards == Distinct(get_usefuls(cards, progress))
        wd       == want_to_discard(cards, me, rr)
        undrawn  == {RankNum(nm[1]) : nm \in {x \in get_all_useful_cardnames(rr) :
                                                ~Contains(names(get_all_cards(rr)), x)}}
        useless  == {pl \in 0..(rr.nPlayers - 1) : get_usefuls(rr.h[pl], progress) = <<>>}
        after    == round_after(1, rr.hints - 1, Len(rr.deck) - 1, rr)
        want     == /\ usefulCards = <<>>
                    /\ rr.hints <= Cardinality(useless)
                    /\ ~(after.tempdeck <= 0 \/ after.temphints > 0)
        waiting_for_low_card ==
            /\ rr.nPlayers = 5 /\ undrawn # {}
            /\ endgame(rr) < rr.nPlayers
                               - (CHOOSE m \in undrawn : \A x \in undrawn : m <= x)
        someone_plays ==
            \E k \in 1..Len(FirstOnes(other_players(me, rr), rr.hints)) :
                get_plays(rr.h[other_players(me, rr)[k]], progress) # <<>>
    IN  IF endgame(rr) > 0 /\ Len(rr.deck) = 1 THEN give_a_hint(me, rr)
        ELSE IF endgame(rr) > 0 /\ ~waiting_for_low_card /\ ~want /\ someone_plays
        THEN give_a_hint(me, rr)
        ELSE IF rr.hints + wd.badness < 10 THEN CheatDiscard(wd.card)
        ELSE IF \E k \in 1..Len(other_badness(rr)) : other_badness(rr)[k] < wd.badness
        THEN give_a_hint(me, rr)
        ELSE CheatDiscard(wd.card)

\* play when the player holds no playable card (lines 216-250)
play_unplayable(rr) ==
    LET me       == rr.whoseTurn
        cards    == rr.h[me]
        progress == rr.progress
        n        == rr.nPlayers
        usefulCards   == Distinct(get_usefuls(cards, progress))
        criticalCards == get_criticals(cards, rr)
        wd       == want_to_discard(cards, me, rr)
        modified_pace ==
            Cardinality({pl \in 0..(n - 1) : get_usefuls(rr.h[pl], progress) # <<>>})
            - endgame(rr)
        \* the suits whose next card is in no hand
        suits    == {s \in rr.suits :
                        /\ progress[s] <= 2
                        /\ ~Contains(names(get_all_cards(rr)), <<RankChar(progress[s] + 1), s>>)}
        suit     == CHOOSE s \in suits : TRUE
        next_value == progress[suit] + 1
        two_away == players_with(<<RankChar(next_value + 2), suit>>, rr)
        one_away == players_with(<<RankChar(next_value + 1), suit>>, rr)
        all_but_suit ==
            SumProgress(rr.suits, progress) = (Cardinality(rr.suits) - 1) * 5 + progress[suit]
        two_cards == Len(rr.deck) = 2 /\ rr.hints >= n - 1 /\ Cardinality(suits) = 1
        next_useless ==
            /\ rr.hints >= 8 - Len(usefulCards)
            /\ ~all_useful_cards_are_drawn(rr)
            /\ modified_pace >= 0
            /\ \/ get_usefuls(rr.h[next(me, rr)], progress) = <<>>
               \/ Len(get_criticals(rr.h[next(me, rr)], rr)) + 1 < Len(criticalCards)
            /\ \E k \in 1..Len(rr.h[next(me, rr)]) :
                  has_been_played(rr.h[next(me, rr)][k], progress)
    IN  IF rr.hints = 8 THEN give_a_hint(me, rr)
        ELSE IF rr.hints = 0 THEN CheatDiscard(wd.card)
        ELSE IF /\ two_cards /\ two_away = <<>>
                /\ \E k \in 1..Len(one_away) : one_away[k] # me
                /\ all_but_suit
        THEN CheatDiscard(wd.card)
        ELSE IF two_cards /\ Len(two_away) = 1
        THEN IF /\ \E k \in 1..Len(one_away) : is_between(me, two_away[1], one_away[k])
                /\ \/ me # two_away[1]
                   \/ all_but_suit
                   \/ get_plays(get_all_cards(rr), progress) = <<>>
             THEN CheatDiscard(wd.card)
             ELSE give_a_hint(me, rr)
        ELSE IF next_useless THEN give_a_hint(me, rr)
        ELSE play_stalled(rr)

\* at 8 hint tokens a player without a playable card discards
CheatingPlayer_play_discard_at_eight(rr) ==
    IF get_plays(rr.h[rr.whoseTurn], rr.progress) # <<>> THEN play_playable(rr)
    ELSE IF rr.hints = 8
    THEN CheatDiscard(want_to_discard(rr.h[rr.whoseTurn], rr.whoseTurn, rr).card)
    ELSE play_unplayable(rr)

CheatingPlayer_play(rr) ==
    IF get_plays(rr.h[rr.whoseTurn], rr.progress) # <<>> THEN play_playable(rr)
    ELSE play_unplayable(rr)

(***************************************************************************)
(* CheatingPlayer.play called in drawn positions of a game of red and      *)
(* yellow cards.                                                           *)
(***************************************************************************)
\* the cards of a hand
CheatHandLen == 2

CheatSuits == {"r", "y"}

\* the names of the cards the player whose turn it is may hold
CheatNames == {<<"1", "r">>, <<"4", "r">>, <<"5", "r">>, <<"3", "y">>}

\* the hands of the player after it: useless cards, a playable card, the 5
CheatNextHands ==
    {[k \in 1..CheatHandLen |-> Card(nm)] : nm \in {<<"1", "r">>, <<"4", "r">>, <<"5", "r">>}}

\* the discard piles: none, a red 4, both yellow 2s
CheatPiles == {<<>>, << <<"4", "r">> >>, << <<"2", "y">>, <<"2", "y">> >>}

InitCheat ==
    \E n \in 2..3 : \E cards \in [1..CheatHandLen -> {Card(nm) : nm \in CheatNames}] :
    \E nxt \in CheatNextHands : \E red \in {0, 3, 4} : \E hints \in {0, 1, 7, 8} :
    \E decksize \in 0..2 : \E pile \in CheatPiles :
        /\ r = [nPlayers      |-> n,
                h             |-> [q \in 0..(n - 1) |->
                                     IF q = 0 THEN cards
                                     ELSE IF q = 1 THEN nxt
                                     ELSE [k \in 1..CheatHandLen |-> Card(<<"3", "y">>)]],
                suits         |-> CheatSuits,
                progress      |-> [s \in CheatSuits |-> IF s = "r" THEN red ELSE 1],
                hints         |-> hints,
                whoseTurn     |-> 0,
                deck          |-> [k \in 1..decksize |-> <<"5", "y">>],
                discardpile   |-> pile,
                gameOverTimer |-> IF decksize = 0 THEN n ELSE None]
        /\ mem = NoMem
        /\ call = [NoCall EXCEPT !.op = "cheating_play", !.me = 0]
        /\ ret = NoRet
        /\ pc = "call"

CallCheatingPlay ==
    /\ pc = "call" /\ call.op = "cheating_play"
    /\ LET returned(x) ==
               ret' = [NoRet EXCEPT
                          !.action = [kind |-> x.kind,
                                      slot |-> IF x.kind = "hint" THEN 0
                                               ELSE IndexOf(r.h[r.whoseTurn], x.card)],
                          !.clue = x.clue, !.me = r.whoseTurn, !.hints = r.hints]
       IN  returned(CheatingPlayer_play(r))
    /\ pc' = "done"
    /\ UNCHANGED <<r, mem, call>>

NextCheat == CallCheatingPlay

SpecCheat == InitCheat /\ [][NextCheat]_vars

(***************************************************************************)
(* Properties of the codec and of the clues.                               *)
(***************************************************************************)
\* the number of players who sit between giver and target in turn order
Skipped(giver, target, n) == CHOOSE k \in 0..(n - 1) : (giver + 1 + k) % n = target

\* some card of the hand other than the newest differs from it in rank or suit
HasOtherDifferent(cards) ==
    \E k \in 1..(Len(cards) - 1) :
        \/ cards[k].name[1] # Newest(cards).name[1]
        \/ cards[k].name[2] # Newest(cards).name[2]

\* some card other than the newest can be clued without touching the newest
HasOtherCluable(cards) ==
    \E k \in 1..(Len(cards) - 1) :
        \/ cards[k].name[1] # Newest(cards).name[1]
        \/ /\ cards[k].name[2] # Newest(cards).name[2]
           /\ Newest(cards).name[2] # RAINBOW_SUIT

EmitDone == pc = "done" /\ call.op = "number_to_clue" /\ ret.err = ""

\* C4: action_to_number maps hint to 0, play of slot s to 4-s and discard of
\* slot s to 8-s, always into 0..8, and number_to_action is its inverse in
\* both directions.
C4_CodecBijection ==
    /\ (pc = "done" /\ call.op = "action_to_number") =>
          /\ ret.num \in 0..8
          /\ ret.num = (CASE call.action.kind = "hint" -> 0
                          [] call.action.kind = "play" -> 4 - call.action.slot
                          [] call.action.kind = "discard" -> 8 - call.action.slot)
          /\ number_to_action(ret.num) = call.action
    /\ (pc = "done" /\ call.op = "number_to_action") =>
          /\ ret.action \in Actions
          /\ action_to_number(ret.action) = call.n

C4_Witness ==
    /\ pc = "done" /\ call.op = "action_to_number"
    /\ call.action = Discard(3) /\ ret.num = 5

\* C6: the number read from a clue is base + 3 * (players skipped), with base
\* 0 for a rank clue touching the newest card of the target, 1 for a suit clue
\* touching it and 2 for a clue that does not touch it; the clue a player
\* emits for a number reads as a number in 0..8.
C6_ClueToNumber ==
    (pc = "done" /\ ret.err = "" /\ ret.clue # NoClue) =>
        LET new  == Newest(r.h[ret.clue.target]).name
            base == IF ~Touches(new, ret.clue.value) THEN 2
                    ELSE IF ret.clue.value \in AllSuits THEN 1
                    ELSE 0
        IN  /\ ret.num = base + 3 * Skipped(call.me, ret.clue.target, r.nPlayers)
            /\ call.op = "number_to_clue" => ret.num \in 0..8

C6_Witness ==
    /\ EmitDone /\ r.nPlayers = 5 /\ call.me = 3
    /\ ret.clue.target = 1 /\ ret.num = 8

\* C7 as stated: whenever some card other than the newest differs from the
\* newest in rank or in suit, the clue emitted for n reads back as n.
C7_Original ==
    (EmitDone /\ HasOtherDifferent(r.h[ret.clue.target])) => ret.num = call.n

\* C7 amended: the clue emitted for n reads back as n whenever some card other
\* than the newest differs from it in rank, or differs from it in suit while
\* the newest card is not a rainbow card.
C7_RoundTrip ==
    (EmitDone /\ HasOtherCluable(r.h[ret.clue.target])) => ret.num = call.n

C7_Witness ==
    /\ EmitDone /\ call.n = 5 /\ ret.num = 5
    /\ HasOtherCluable(r.h[ret.clue.target])
    /\ Newest(r.h[ret.clue.target]).name[2] = "r"
    /\ ret.clue.value = "y"

Degenerate ==
    /\ pc # "call" /\ call.op = "number_to_clue" /\ ret.err = ""
    /\ call.n % 3 = 2
    /\ ~HasOtherDifferent(r.h[ret.clue.target])

UpdateDone ==
    pc = "done" /\ call.op = "update_value_after_action" /\ ret.err = ""

\* the value of the head clue of the caller, and the entry of 'discards' of
\* the player it has seen acting
HeadValue == mem[call.me].given_clues[1].value

DefaultNonPlay == mem[call.me].given_clues[1].discards[call.player]

Minus9(v, action) == (v - action_to_number(action)) % 9

C10_Original ==
    (UpdateDone /\ call.player # mem[call.me].modified_player)
        => HeadValue = Minus9(call.n, call.action)

\* C10 amended: for a player other than the first-recommended one the code
\* subtracted is that of the action seen when it is a discard, or a play of a
\* card playable on futureprogress; for a hint, and for a play of a card not
\* playable on futureprogress, it is the code of its entry of 'discards'.
C10_SubtractedCode ==
    (UpdateDone /\ call.player # mem[call.me].modified_player) =>
        IF \/ call.action.kind = "discard"
           \/ /\ call.action.kind = "play"
              /\ is_cardname_playable(call.cardname, mem[call.me].futureprogress)
        THEN HeadValue = Minus9(call.n, call.action)
        ELSE HeadValue = Minus9(call.n, DefaultNonPlay)

C10_Witness ==
    /\ UpdateDone /\ call.player # mem[call.me].modified_player
    /\ call.action = Play(1) /\ call.cardname = <<"2", "y">>
    /\ mem[call.me].futureprogress["y"] = 2
    /\ DefaultNonPlay = Discard(3)
    /\ call.n = 2 /\ HeadValue = 6

\* a call of play has ended, for the player ret.me
TurnEnded == call.op = "play" /\ ret.me >= 0

\* C1 as stated: in a game of 4 or 5 hat players every call of play returns
\* one action: a play or a discard of one of the slots of the player, or a
\* hint to another player.
C1_OneAction ==
    (TurnEnded /\ r.nPlayers >= 4 /\ r.allHat) =>
        /\ ret.err = ""
        /\ ~ret.none
        /\ \/ ret.action.kind \in {"play", "discard"}
              /\ ret.action.slot \in 0..(ret.handlen - 1)
           \/ ret.action.kind = "hint"
              /\ ret.clue.target \in (0..(r.nPlayers - 1)) \ {ret.me}

\* a clue is being followed: call.chain holds the actions its cluer computed
Tracking == call.op = "play" /\ DOMAIN call.chain # {}

\* the player whose action the clue gives first
FirstOf == (call.cluer + 1) % r.nPlayers

\* player o has thought about the action of the first player of the clue
ThoughtOf(o) == ret.me >= 0 /\ o < ret.at

\* the players from a to b in turn order
RECURSIVE FromTo(_, _)
FromTo(a, b) == IF a = b THEN {b} ELSE {a} \cup FromTo((a + 1) % r.nPlayers, b)

\* the players of the chain whose action player o has still to attribute
Unattributed(o) ==
    IF ThoughtOf(o)
    THEN (IF o = FirstOf THEN {} ELSE FromTo((FirstOf + 1) % r.nPlayers, o))
    ELSE FromTo(FirstOf, o)

RECURSIVE SumCodes(_)
SumCodes(S) ==
    IF S = {} THEN 0
    ELSE LET a == CHOOSE x \in S : TRUE
         IN  action_to_number(call.chain[a]) + SumCodes(S \ {a})

Decoded == number_to_action(mem[ret.me].given_clues[1].value)

DecodedNoSlot ==
    /\ TurnEnded /\ ret.thought
    /\ mem[ret.me].given_clues # <<>>
    /\ Decoded.kind \in {"play", "discard"}
    /\ Decoded.slot >= ret.handlen

DecodedSlot ==
    /\ TurnEnded /\ ret.thought
    /\ mem[ret.me].given_clues # <<>>
    /\ Decoded.kind \in {"play", "discard"}
    /\ Decoded.slot < ret.handlen

\* C11 as stated: when the clues of the player decode at its turn to a play
\* or a discard of one of its slots, play returns that action on that slot.
C11_BindingCommitment ==
    DecodedSlot => (ret.err = "" /\ ~ret.none /\ ret.action = Decoded)

FreeAtZeroHints ==
    /\ TurnEnded /\ ret.thought
    /\ ret.hints = 0
    /\ mem[ret.me].given_clues = <<>>

\* the slot of the card remembered as safe when the hand holds it, else 3
SafeSlot ==
    IF /\ mem[ret.me].safe_discard # NoCard
       /\ Contains(ret.hand, mem[ret.me].safe_discard)
    THEN IndexOf(ret.hand, mem[ret.me].safe_discard)
    ELSE 3

DiscardProcessed ==
    /\ TurnEnded /\ call.player >= 0
    /\ ret.me = (call.player + 1) % r.nPlayers
    /\ call.player < ret.at

C16_EveryAgentThinks ==
    (TurnEnded /\ ret.at >= 0) => (ret.at = r.nPlayers /\ ret.thought)

\* the second clue of the player's queue as initialize_given_clue makes it
\* the active one, once the first clue is removed
LaterSignal ==
    initialize_given_clue([mem[ret.me] EXCEPT !.given_clues = Tail(ret.queue)], ret.me,
                          [r EXCEPT !.whoseTurn = ret.me])

\* the player decides while it holds two clues; the first tells it to
\* discard or to hint and the second, made active, tells it to play
Superseded ==
    /\ TurnEnded /\ ret.thought
    /\ Len(ret.queue) >= 2
    /\ number_to_action(ret.queue[1].value).kind \in {"discard", "hint"}
    /\ LaterSignal.err = ""
    /\ number_to_action(LaterSignal.b.given_clues[1].value).kind = "play"

\* C17 as stated: a player whose first clue tells it to discard or to hint
\* and whose later clue tells it to play returns the play of the later clue,
\* and the first clue leaves its queue.
C17_Superseding ==
    Superseded =>
        /\ ret.err = "" /\ ~ret.none
        /\ ret.action = number_to_action(LaterSignal.b.given_clues[1].value)
        /\ Len(mem[ret.me].given_clues) < Len(ret.queue)

\* the player before the one whose turn it was
Hinter == (ret.me + r.nPlayers - 1) % r.nPlayers

\* the turn started with a hint as the last action of the game
Observing == TurnEnded /\ ret.last.kind = "hint"

\* C18 as stated: when the last action is a hint, every player other than
\* the one who gave it holds, as the last of its clues, a clue of that player
\* with no plays observed, whose value is clue_to_number of the hint unless
\* the clue is the only one and has been made active.  (The player whose
\* turn it is may have resolved the clue by the end of its turn.)
C18_HintEnqueued ==
    Observing =>
        \A o \in (0..(r.nPlayers - 1)) \ {Hinter, ret.me} :
            /\ mem[o].given_clues # <<>>
            /\ LET d == mem[o].given_clues[Len(mem[o].given_clues)]
               IN  /\ d.cluer = Hinter
                   /\ d.plays = <<>>
                   /\ \/ Len(mem[o].given_clues) = 1
                      \/ d.value = clue_to_number(ret.last.target, ret.last.value, Hinter, r)

\* C19 as stated: once a player has thought about the last action, its
\* futureprogress of every suit is at least the progress of the suit.
C19_FutureAtLeastProgress ==
    TurnEnded =>
        \A o \in 0..(r.nPlayers - 1) : \A s \in DOMAIN ret.progress :
            ThoughtOf(o) => mem[o].futureprogress[s] >= ret.progress[s]

\* the player whose resolve_next_player_actions ended the turn: the one
\* whose thinking raised, or the player whose turn it was
Resolver == IF ret.at >= 0 /\ ret.at < r.nPlayers THEN ret.at ELSE ret.me

Resolving == TurnEnded /\ ret.where = "resolve_next_player_actions"

\* C20 as stated: once a player has gone through the actions its clue gives
\* the players after it, its player_to_card has an entry for exactly those
\* of them that the clue tells to play.
C20_CommittedPlayers ==
    Resolving =>
        LET b   == mem[Resolver]
            npa == b.next_player_actions
        IN  \A k \in 1..Len(npa) :
                (npa[k].kind = "play") <=>
                    ((Resolver + k) % r.nPlayers \in DOMAIN b.player_to_card)

(***************************************************************************)
(* standard_action.                                                        *)
(***************************************************************************)
StandardDone == call.op = "standard_action" /\ pc = "done"

\* the memory of the player that works out the action
Mine == mem[call.me]

\* the hand of the player whose action is worked out
Theirs == r.h[call.player]

HasCommitment == call.player \in DOMAIN Mine.player_to_card

\* C21: for a player that player_to_card holds, standard_action returns the
\* play of the slot held there, whatever the hand of the player, the
\* progress and the cards already to be played are.
C21_CommittedSlot ==
    (StandardDone /\ HasCommitment) =>
        (ret.err = "" /\ ret.action = Play(Mine.player_to_card[call.player]))

\* the slot held is returned where the hand, the progress and the cards to
\* be played would give another action
C21_Witness ==
    /\ StandardDone /\ HasCommitment
    /\ ret.action = Play(Mine.player_to_card[call.player])
    /\ ret.action # standard_action(call.me, call.cluer, call.player, Mine.will_be_played,
                                    Mine.futureprogress, Mine.card_to_player, <<>>, r).action

\* slot k - 1 of the hand holds a card that can be played on the progress
\* the player works with (futureprogress, the progress once the plays told by
\* earlier clues are made) and that no other player is to play
Candidate(k) ==
    /\ is_cardname_playable(Theirs[k].name, Mine.futureprogress)
    /\ ~Contains(Mine.will_be_played, Theirs[k].name)

\* C22 as stated: for a player that player_to_card does not hold, the cards
\* standard_action considers for a play are those that can be played on the
\* progress passed to it: it returns a play exactly when the hand holds such a
\* card, and the card played is one of them.
C22_ProjectedProgress ==
    (StandardDone /\ ~HasCommitment) =>
        /\ (ret.action.kind = "play") <=> (\E k \in 1..Len(Theirs) : Candidate(k))
        /\ ret.action.kind = "play" => Candidate(ret.action.slot + 1)

\* slot k - 1 holds a card that cannot be played yet, that no other player
\* is to play, and whose card below is to be played by a player between the
\* cluer and the player
Dependent(k) ==
    LET name  == Theirs[k].name
        below == prev_cardname(name)
    IN  /\ ~is_cardname_playable(name, r.progress)
        /\ ~Contains(Mine.will_be_played, name)
        /\ below \in DOMAIN Mine.card_to_player
        /\ is_between(Mine.card_to_player[below], call.cluer, call.player)

\* C23 as stated: a player that player_to_card does not hold and whose hand
\* has such a card is given a play by standard_action.
C23_DependencyLookahead ==
    (StandardDone /\ ~HasCommitment /\ \E k \in 1..Len(Theirs) : Dependent(k)) =>
        ret.action.kind = "play"

(***************************************************************************)
(* The walk of the cluer over the players of its clue.                     *)
(***************************************************************************)
PassDone == call.op = "clue_players" /\ pc = "done" /\ ret.err = ""

\* the player whose action is the k-th of next_player_actions
Walked(k) == (call.me + r.nPlayers - k) % r.nPlayers

\* the card the k-th action plays
PlayedName(k) == r.h[Walked(k)][Mine.next_player_actions[k].slot + 1].name

\* C24 as stated: the plays worked out in one walk are of cards of different
\* rank and suit, whether a play is chosen in the walk or was told by an
\* earlier clue.
C24_NoDoubleCommitment ==
    PassDone =>
        \A j, k \in 1..Len(Mine.next_player_actions) :
            (/\ j < k
             /\ Mine.next_player_actions[j].kind = "play"
             /\ Mine.next_player_actions[k].kind = "play")
            => PlayedName(j) # PlayedName(k)

\* slot k - 1 holds a card standard_action keeps as playableCards: one that
\* can be played on r.progress and that no other player is to play
Wanted(k) ==
    /\ is_cardname_playable(Theirs[k].name, r.progress)
    /\ ~Contains(Mine.will_be_played, Theirs[k].name)

WantedSlots == {k \in 1..Len(Theirs) : Wanted(k)}

Several == StandardDone /\ ~HasCommitment /\ Cardinality(WantedSlots) >= 2

\* the card of the lowest rank among those wanted, the newest of that rank
LowestNewest ==
    CHOOSE k \in WantedSlots :
        \A j \in WantedSlots :
            \/ RankNum(Theirs[k].name[1]) < RankNum(Theirs[j].name[1])
            \/ RankNum(Theirs[k].name[1]) = RankNum(Theirs[j].name[1]) /\ j <= k

\* C25 as stated: with several cards wanted, the play returned is that of the
\* oldest of them.
C25_Original ==
    Several =>
        ret.action = Play((CHOOSE k \in WantedSlots : \A j \in WantedSlots : k <= j) - 1)

\* C25, corrected: with several cards wanted, the play returned is that of
\* the card of the lowest rank among them, the newest one of that rank; the
\* slot is the first of the hand that holds a card equal to it.
C25_LowestRankNewest ==
    Several =>
        /\ ret.err = ""
        /\ ret.action = Play(IndexOf(Theirs, Theirs[LowestNewest]))

\* a card of a lower rank is played although an older card is wanted
C25_Witness ==
    /\ Several
    /\ ret.action.kind = "play"
    /\ \E k \in WantedSlots :
          /\ k < ret.action.slot + 1
          /\ RankNum(Theirs[k].name[1]) > RankNum(Theirs[ret.action.slot + 1].name[1])

NoCandidate == StandardDone /\ ~HasCommitment /\ WantedSlots = {}

\* the slots of the cards whose rank the progress given has reached
PlayedSlots ==
    {k \in 1..Len(Theirs) :
        RankNum(Theirs[k].name[1]) <= Mine.futureprogress[Theirs[k].name[2]]}

\* the slots of the cards that occur twice in the hand
DuplicateSlots ==
    {k \in 1..Len(Theirs) : \E j \in 1..Len(Theirs) : j # k /\ Theirs[j] = Theirs[k]}

Oldest(S) == (CHOOSE k \in S : \A j \in S : k <= j) - 1

\* C26: with no card wanted, standard_action returns the discard of the
\* oldest card already played on the progress given, else the discard of the
\* oldest card that occurs twice in the hand, else a hint.
C26_StandardNonplay ==
    NoCandidate =>
        /\ ret.err = ""
        /\ ret.action = IF PlayedSlots # {} THEN Discard(Oldest(PlayedSlots))
                        ELSE IF DuplicateSlots # {} THEN Discard(Oldest(DuplicateSlots))
                        ELSE Hint0

\* a card already played is discarded although an older card occurs twice
C26_Witness ==
    /\ NoCandidate
    /\ ret.action.kind = "discard"
    /\ ret.action.slot + 1 \in PlayedSlots
    /\ \E k \in DuplicateSlots : k < ret.action.slot + 1

(***************************************************************************)
(* modified_action.                                                        *)
(***************************************************************************)
ModifiedDone == call.op = "modified_action" /\ pc = "done"

\* what standard_action gives the first player of the clue
Recommended ==
    standard_action(call.me, call.cluer, call.player, Mine.will_be_played,
                    Mine.futureprogress, <<>>, <<>>, r).action

\* the number of hints at the turn of the first player of the clue: the
\* cluer spends one, and a player between them that plays a 5 gains one
HintsAtTurn ==
    LET fives == {q \in DOMAIN Mine.player_to_card :
                    /\ is_between(q, next(call.me, r), prev(call.player, r))
                    /\ q # call.player
                    /\ r.h[q][Mine.player_to_card[q] + 1].name[1] = "5"}
        after == r.hints - 1 + Cardinality(fives)
    IN  IF after > 8 THEN 8 ELSE after

\* C27 as stated: when the first player of the clue will have 8 hints at
\* its turn, modified_action returns a hint, whatever standard_action
\* recommends.
C27_HintAtEightHints ==
    (ModifiedDone /\ HintsAtTurn = 8) => (ret.err = "" /\ ret.action = Hint0)

\* the discard easy_discards finds in the hand of the first player of the
\* clue, a hint if there is none
Easy == easy_discards(Theirs, Mine.futureprogress)

\* C28 as stated, without the choice hard_discards makes: when
\* standard_action recommends no play and the first player of the clue will
\* have fewer than 8 hints, modified_action returns the easy discard if there
\* is one, and a discard or a hint otherwise.
C28_ThreeTierFallback ==
    (ModifiedDone /\ Recommended.kind # "play" /\ HintsAtTurn < 8) =>
        /\ ret.err = ""
        /\ Easy.kind = "discard" => ret.action = Easy
        /\ Easy.kind # "discard" => ret.action.kind \in {"discard", "hint"}

(***************************************************************************)
(* Building a clue.                                                        *)
(***************************************************************************)
\* the turn of a player of a game of at least 4 that holds no clue while a
\* hint is left: the player is to give a clue
Signaling ==
    /\ TurnEnded /\ r.nPlayers >= 4 /\ r.allHat
    /\ ret.at \in {-1, r.nPlayers}
    /\ ret.queue = <<>> /\ ret.hints > 0

C30_SameFirstPlayer ==
    /\ Signaling =>
          /\ ret.err = ""
          /\ mem[ret.me].modified_player
                = first_not_playing(mem[ret.me], next(ret.me, r), r)
    /\ Observing =>
          \A o \in (0..(r.nPlayers - 1)) \ {Hinter, ret.me} :
              mem[o].modified_player
                  = first_not_playing(mem[Hinter], next(Hinter, r), r)

(***************************************************************************)
(* interpret_external_action.                                              *)
(***************************************************************************)
\* C40 as stated: the last action of the game is read as a pair, the action
\* and the name of the card (a hint with an empty name), and the players
\* think about it without a ValueError.
C40_PairForEveryAction ==
    (TurnEnded /\ ret.at >= 0) =>
        /\ interpret_external_action(ret.last).len = 2
        /\ ret.last.kind = "hint" =>
              /\ interpret_external_action(ret.last).action = Hint0
              /\ interpret_external_action(ret.last).cardname = <<"", "">>
        /\ ret.last.kind # "hint" =>
              /\ interpret_external_action(ret.last).action
                    = [kind |-> ret.last.kind, slot |-> ret.last.position]
              /\ interpret_external_action(ret.last).cardname = ret.last.name
        /\ ret.err # "ValueError"

CountDone == pc = "done" /\ call.op = "count_hints"

OneStep == CountDone /\ Len(call.steps) = 1

\* C31 as stated: a projected discard at 8 hint tokens leaves 8 of them.
C31_Original ==
    /\ OneStep =>
          /\ call.steps[1] = Discard(0) =>
                ret.num = IF call.n = 8 THEN 8 ELSE call.n + 1
          /\ call.steps[1] = Play(0) => ret.num = Min(call.n + 1, 8)
          /\ (call.steps[1] = Hint0 /\ call.n > 0) => ret.num = call.n - 1
    /\ CountDone => ret.num \in 0..8

\* C31: in count_hints a projected discard adds one hint token unless the
\* count is 8, in which case it becomes 7; a projected play of a 5 adds one,
\* up to 8; a projected hint removes one unless the count is 0, in which case
\* it becomes 1; another play changes nothing; and from a count in 0..8 the
\* count stays in 0..8 after every step.
C31_HintProjection ==
    /\ OneStep =>
          /\ call.steps[1] = Discard(0) =>
                ret.num = IF call.n = 8 THEN 7 ELSE call.n + 1
          /\ call.steps[1] = Play(0) => ret.num = Min(call.n + 1, 8)
          /\ call.steps[1] = Hint0 =>
                ret.num = IF call.n = 0 THEN 1 ELSE call.n - 1
          /\ call.steps[1] = Play(1) => ret.num = call.n
    /\ CountDone => ret.num \in 0..8

C31_Witness ==
    /\ OneStep /\ call.n = 8
    /\ call.steps = <<Discard(0)>>
    /\ ret.queue = <<2>>
    /\ ret.num = 7

\* the players think about the last action at the start of this turn
Thinking == pc = "call" /\ call.op = "play" /\ r.playHistory # <<>>

Waiting == TurnEnded /\ ret.thought /\ Len(ret.queue) >= 2

EarlierPlays(k, suit) ==
    {j \in (k + 1)..Len(Mine.next_player_actions) :
        /\ Mine.next_player_actions[j].kind = "play"
        /\ PlayedName(j)[2] = suit}

BeforePlanning ==
    IF r.playHistory = <<>> THEN [i \in 0..(r.nPlayers - 1) |-> reset_memory(r)]
    ELSE think_all(mem, 0, r).mem

\* the player whose turn it is holds no clue and is to give one
FreeToSignal ==
    /\ pc = "call" /\ call.op = "play"
    /\ r.nPlayers >= 4 /\ r.allHat /\ r.hints > 0
    /\ r.playHistory # <<>> => think_all(mem, 0, r).err = ""
    /\ BeforePlanning[r.whoseTurn].given_clues = <<>>

WalkEnd == (Resolver + 1 + Len(mem[Resolver].next_player_actions)) % r.nPlayers

\* C36 as stated: resolve_next_player_actions runs to its end, and the
\* player after the one its walk ends at is the player who gave the first
\* of the clues.
C36_ClosingAssertion ==
    Resolving =>
        /\ ret.err = ""
        /\ (WalkEnd + 1) % r.nPlayers = mem[Resolver].given_clues[1].cluer

HardDone == call.op = "hard_discards" /\ pc = "done"

\* no card of the first player of the clue is a card another player is to play
NoneTold == \A k \in 1..Len(Theirs) : ~Contains(Mine.will_be_played, Theirs[k].name)

OwnPlay == TurnEnded /\ ret.last.kind = "play" /\ ret.at >= Hinter

\* C38 as stated: resolve_given_clues, called when a player thinks about its
\* own play, comes to an end without an exception, and the player holds no
\* clue afterwards.
C38_QueueEmptyAfterOwnPlay ==
    OwnPlay =>
        /\ ret.at # Hinter
        /\ mem[Hinter].given_clues = <<>>

CheatDone == call.op = "cheating_play" /\ pc = "done"

\* C39: CheatingPlayer.play returns no hint when there are 0 hint tokens and
\* no discard when there are 8.
C39_NoIllegalAction ==
    CheatDone =>
        /\ r.hints = 0 => ret.action.kind # "hint"
        /\ r.hints = 8 => ret.action.kind # "discard"

\* at 8 hint tokens a player who holds no playable card and a card already
\* played gives a hint
C39_Witness ==
    /\ CheatDone /\ r.hints = 8
    /\ get_plays(r.h[ret.me], r.progress) = <<>>
    /\ want_to_discard(r.h[ret.me], ret.me, r).badness = 1
    /\ ret.action.kind = "hint"

====
